---- MODULE Spec2Model ----
(***************************************************************************)
(* Model of the cv-analyzer evaluation pipeline: the vacancy and           *)
(* submission records, the two BullMQ queues, the HTTP handlers that       *)
(* create and toggle records, and the two worker handlers, split at the    *)
(* awaits where another request or worker can run in between.              *)
(***************************************************************************)
EXTENDS Integers, Sequences, FiniteSets, TLC

\* ---------------------------------------------------------------- bounds
MaxVacancies == 1
MaxJobs == 1
MaxOutputs == 1

\* weights are multiples of 1/WeightParts
WeightParts == 2
\* how far above the scale a grade in an LLM response can lie
MaxExcess == 1
\* chunks a collection holds, and the largest topK a query asks for
MaxChunks == 2
\* the longest text given to chunkText, its largest target size and overlap
MaxTextLen == 7
MaxChunkSize == 6
MaxOverlap == 2

\* attempts: 3 in both queues' defaultJobOptions
Attempts == 3

\* the prompts ask for grades on a 1-5 scale; the weighted CV score is divided by 5
GradeMin == 1
GradeMax == 5

VacancyIds == 1..MaxVacancies
JobIds == 1..MaxJobs
\* opaque values an LLM call can return (rubric / query list contents)
LLMOutputs == 1..MaxOutputs

JobTypes == {"cv_only", "cv_with_test"}

\* ------------------------------------------------------------- variables
VARIABLES
    vacancies,      \* JobVacancyModel collection, keyed by vacancyId
    jobs,           \* JobModel collection, keyed by jobId
    ingestQ,        \* "job-vacancy-ingestion" queue: job per vacancyId
    evalQ,          \* "evaluation" queue: job per jobId
    ingestPc,       \* position of the ingestion handler run for a vacancy
    evalPc,         \* position of the evaluation handler run for a job
    evalVac,        \* the vacancy document the evaluation handler loaded
    evalErr,        \* message of the exception the evaluation handler caught
    resp,           \* last HTTP response (handler, status code, error text)
    inflightWriter, \* history: who last wrote a vacancy's status during the running attempt
    everActive,     \* history: the vacancy's status has been "active"
    resultWrites,   \* history: number of updates that wrote jobs[j].result
    workers,        \* the BullMQ workers that were constructed
    run,            \* the locals of one evaluation attempt followed stage by stage
    chroma,         \* ChromaDB: the chunks of each shared collection
    vq,             \* one vector query: its arguments and what each mode returned
    ing,            \* the locals of one vacancy's ingestion followed step by step
    ct              \* one chunkText call: its arguments and what it returned

vars == <<vacancies, jobs, ingestQ, evalQ, ingestPc, evalPc, evalVac, evalErr,
          resp, inflightWriter, everActive, resultWrites, workers, run, chroma, vq,
          ing, ct>>

\* ------------------------------------------------------------ documents
\* "none" as status stands for: no document with this id in the collection.
\* error is what a reader of the document finds under "error": the vacancy
\* schema has no such path and no update of the code names it
NoVacancy ==
    [status |-> "none", type |-> "cv_only", files |-> {},
     standardizedCvRubric |-> 0, standardizedProjectRubric |-> 0,
     cvEvaluationQueries |-> 0, projectEvaluationQueries |-> 0,
     error |-> ""]

NoResult == [defined |-> FALSE, project |-> FALSE]

NoJob == [status |-> "none", vacancyId |-> 0, fileIds |-> {},
          result |-> NoResult, error |-> ""]

\* data: the vacancyId the job data carries (job.data.vacancyId)
NoQueueJob == [state |-> "none", attemptsMade |-> 0, data |-> 0]

NoResp == [op |-> "none", code |-> 0, error |-> ""]

\* set.status and the error field of the returned body
Respond(op, code, error) == [op |-> op, code |-> code, error |-> error]

RequiredFiles(type) ==
    IF type = "cv_with_test"
    THEN {"job_description", "cv_rubric", "case_study_brief", "project_rubric"}
    ELSE {"job_description", "cv_rubric"}

\* ------------------------------------------------- values and arithmetic
\* a value of a parsed JSON response or of a JavaScript expression: undefined,
\* a non-numeric string, a number num/den, or the number NaN
Undefined == [type |-> "undefined", nan |-> FALSE, num |-> 0, den |-> 1]

Str == [type |-> "string", nan |-> FALSE, num |-> 0, den |-> 1]

Frac(n, d) == [type |-> "number", nan |-> FALSE, num |-> n, den |-> d]

Num(n) == Frac(n, 1)

NaN == [type |-> "number", nan |-> TRUE, num |-> 0, den |-> 1]

\* the operand conversion of * and +: undefined and a non-numeric string give NaN
ToNumber(x) == IF x.type = "number" THEN x ELSE NaN

Mul(x, y) ==
    LET a == ToNumber(x)
        b == ToNumber(y)
    IN IF a.nan \/ b.nan THEN NaN ELSE Frac(a.num * b.num, a.den * b.den)

Add(x, y) ==
    LET a == ToNumber(x)
        b == ToNumber(y)
    IN IF a.nan \/ b.nan THEN NaN
       ELSE Frac(a.num * b.den + b.num * a.den, a.den * b.den)

Div(x, n) ==
    LET a == ToNumber(x)
    IN IF a.nan THEN NaN ELSE Frac(a.num, a.den * n)

\* x <= y; every comparison with NaN is false
Leq(x, y) == ~x.nan /\ ~y.nan /\ x.num * y.den <= y.num * x.den

\* ------------------------------------------------ rubrics and responses
CvParams == {"technical_skills", "experience_level", "achievements", "cultural_fit"}

ProjectParams ==
    {"correctness", "code_quality", "resilience", "documentation", "creativity"}

\* a standardized rubric as the scoring reads it: parameter -> weight. It is
\* stored as the LLM returned it, with no check of the weights
Weights == {Frac(k, WeightParts) : k \in 0..WeightParts}

CvRubrics == [CvParams -> Weights]

\* a rubric with equal weights
UniformRubric(params) == [p \in params |-> Frac(1, Cardinality(params))]

\* what the CV-scoring response can hold under a parameter's key
LLMGrades == {Undefined} \cup {Num(n) : n \in GradeMin..(GradeMax + MaxExcess)}

\* the parsed CV-scoring response: the four grades (feedback is a string)
CvResponses == [CvParams -> LLMGrades]

\* what the project-scoring response can hold under a score key
ProjectValues == {Undefined, Str, Num(GradeMin), Num(GradeMax)}

\* the parsed project-scoring response
ProjectResponses ==
    [isNull : {FALSE}, is_relevant : {"true", "false", "absent"},
     feedback : {Str, Undefined}, scores : [ProjectParams -> ProjectValues]]

\* let projectEvaluation = null
NoProjectEvaluation ==
    [isNull |-> TRUE, is_relevant |-> "absent", feedback |-> Undefined,
     scores |-> [p \in ProjectParams |-> Undefined]]

\* ------------------------------------------------------- the CV stage
\* cvEvaluation.x * cvRubric.x.weight, summed over the four parameters
CvWeightedScore(cvEvaluation, cvRubric) ==
    Add(Add(Add(Mul(cvEvaluation["technical_skills"], cvRubric["technical_skills"]),
                Mul(cvEvaluation["experience_level"], cvRubric["experience_level"])),
            Mul(cvEvaluation["achievements"], cvRubric["achievements"])),
        Mul(cvEvaluation["cultural_fit"], cvRubric["cultural_fit"]))

\* a conversion that divides by the number of parameters instead
CvMatchRateByCount(cvEvaluation, cvRubric) ==
    Div(CvWeightedScore(cvEvaluation, cvRubric), Cardinality(CvParams))

\* const cvMatchRate = cvWeightedScore / 5
CvMatchRate(cvEvaluation, cvRubric) ==
    Div(CvWeightedScore(cvEvaluation, cvRubric), GradeMax)

\* --------------------------------------------------- the project stage
\* a stage that runs for every vacancy type
RunsProjectStageAlways(type) == type \in JobTypes

\* if (vacancy.type !== "cv_with_test") the stage is skipped
RunsProjectStage(type) == type = "cv_with_test"

\* a check that takes every response as relevant
IsRelevantAlways(projectEvaluation) == projectEvaluation.is_relevant \in {"true", "false", "absent"}

\* projectEvaluation.is_relevant !== false: relevant when not specified
IsRelevant(projectEvaluation) == projectEvaluation.is_relevant # "false"

\* typeof of each of the five score fields is "number"
HasScoreFields(projectEvaluation) ==
    \A p \in ProjectParams : projectEvaluation.scores[p].type = "number"

ProjectWeightedScore(projectEvaluation, projectRubric) ==
    Add(Add(Add(Add(Mul(projectEvaluation.scores["correctness"], projectRubric["correctness"]),
                    Mul(projectEvaluation.scores["code_quality"], projectRubric["code_quality"])),
                Mul(projectEvaluation.scores["resilience"], projectRubric["resilience"])),
            Mul(projectEvaluation.scores["documentation"], projectRubric["documentation"])),
        Mul(projectEvaluation.scores["creativity"], projectRubric["creativity"]))

\* the stage from the parsed response on: what it leaves in projectEvaluation
\* and projectScore, or that it threw (no standardized project rubric)
ProjectStage(projectResponse, hasProjectRubric, projectRubric) ==
    IF ~IsRelevant(projectResponse)
    THEN [threw |-> FALSE, projectEvaluation |-> projectResponse, projectScore |-> Num(0)]
    ELSE IF ~HasScoreFields(projectResponse)
    THEN [threw |-> FALSE,
          projectEvaluation |-> [projectResponse EXCEPT !.is_relevant = "false"],
          projectScore |-> Num(0)]
    ELSE IF ~hasProjectRubric
    THEN [threw |-> TRUE, projectEvaluation |-> projectResponse, projectScore |-> Num(0)]
    ELSE [threw |-> FALSE, projectEvaluation |-> projectResponse,
          projectScore |-> ProjectWeightedScore(projectResponse, projectRubric)]

\* ------------------------------------------------- the compiled result
\* the result object, key -> value: the CV keys and the summary always, the
\* project keys when projectEvaluation is set, the detailed project scores
\* only when the response counts as relevant
CompileFinalResult(cvMatchRate, cvEvaluation, projectEvaluation, projectScore, overallSummary) ==
    LET base == [cv_match_rate |-> cvMatchRate,
                 cv_feedback |-> Str,
                 cv_detailed_scores |-> [p \in CvParams |-> cvEvaluation[p]],
                 overall_summary |-> overallSummary]
        project == [project_score |-> projectScore,
                    project_feedback |-> projectEvaluation.feedback]
        detailed == [project_detailed_scores |-> projectEvaluation.scores]
    IN IF projectEvaluation.isNull THEN base
       ELSE IF projectEvaluation.is_relevant # "false" THEN base @@ project @@ detailed
       ELSE base @@ project

\* ------------------------------------------------- the LLM's response text
\* the text callLLM returns, by what parseLLMResponse looks at: it is wrapped
\* in a code fence; there is prose around the JSON; it holds a block from a
\* "{" to a "}"; that block is valid JSON
DirectJson == [fenced |-> FALSE, prose |-> FALSE, braces |-> TRUE, valid |-> TRUE]

FencedJson == [fenced |-> TRUE, prose |-> FALSE, braces |-> TRUE, valid |-> TRUE]

EmbeddedJson == [fenced |-> FALSE, prose |-> TRUE, braces |-> TRUE, valid |-> TRUE]

BrokenJson == [fenced |-> FALSE, prose |-> FALSE, braces |-> TRUE, valid |-> FALSE]

NoJson == [fenced |-> FALSE, prose |-> TRUE, braces |-> FALSE, valid |-> FALSE]

LLMTexts == {DirectJson, FencedJson, EmbeddedJson, BrokenJson, NoJson}

\* cleaned: the fence lines removed
StripFences(response) == [response EXCEPT !.fenced = FALSE]

\* JSON.parse(text) returns: the text is one valid JSON block and nothing else
JsonParses(text) == ~text.fenced /\ ~text.prose /\ text.braces /\ text.valid

\* cleaned.match(/\{[\s\S]*\}/): the block alone, when there is one
BraceBlock(text) == [text EXCEPT !.prose = FALSE]

\* parseLLMResponse: whether it throws; the value it returns otherwise is the
\* parsed object, whatever its fields are
parseLLMResponse(response) ==
    LET cleaned == StripFences(response)
    IN IF JsonParses(cleaned) THEN [threw |-> FALSE]
       ELSE IF cleaned.braces /\ JsonParses(BraceBlock(cleaned)) THEN [threw |-> FALSE]
       ELSE [threw |-> TRUE]

\* summary.overall_summary of the parsed summary: a string, absent, a number
SummaryValues == {Str, Undefined, Num(1)}

\* x.length does not throw
HasProperties(x) == x.type # "undefined"

\* x.substring(0, 100) does not throw
HasSubstring(x) == x.type = "string"

\* what each stage does, in the order of its awaits
CvStageEvents ==
    <<"extractTextFromPDF:cv", "queryVectorDB:cv", "callLLM:cv", "parseLLMResponse:cv">>

ProjectStageEvents ==
    <<"extractTextFromPDF:report", "queryVectorDB:project", "callLLM:project",
      "parseLLMResponse:project">>

SummaryStageEvents == <<"callLLM:summary", "parseLLMResponse:summary">>

\* an order of the stages that starts the project stage before the CV stage
StageAfterProjectFirst(stage) ==
    CASE stage = "begin" -> "files"
      [] stage = "files" -> "project"
      [] stage = "project" -> "cv"
      [] stage = "cv" -> "summary"
      [] stage = "summary" -> "compile"
      [] stage = "compile" -> "post"
      [] OTHER -> "done"

\* the stage that follows a stage that did not throw
StageAfter(stage) ==
    CASE stage = "begin" -> "files"
      [] stage = "files" -> "cv"
      [] stage = "cv" -> "project"
      [] stage = "project" -> "summary"
      [] stage = "summary" -> "compile"
      [] stage = "compile" -> "post"
      [] OTHER -> "done"

\* the locals of an attempt that has not started
NoRun ==
    [stage |-> "none", type |-> "cv_only", reportId |-> FALSE,
     cvRubric |-> UniformRubric(CvParams), hasProjectRubric |-> FALSE,
     projectRubric |-> UniformRubric(ProjectParams),
     cvResponse |-> [p \in CvParams |-> Undefined],
     projectResponse |-> NoProjectEvaluation,
     cvMatchRate |-> Undefined, projectEvaluation |-> NoProjectEvaluation,
     projectScore |-> Num(0), calls |-> {}, result |-> <<>>,
     cvText |-> DirectJson, projectText |-> DirectJson, summaryText |-> DirectJson,
     overallSummary |-> Str, trace |-> <<>>, status |-> "queued",
     persisted |-> FALSE, attemptsMade |-> 0,
     jobVacancyId |-> 0, storeDown |-> FALSE,
     cvContext |-> <<>>, projectContext |-> <<>>]

\* the attempt before its try block, with the vacancy it loaded and the
\* objects the LLM's responses parse to; the responses are plain JSON and the
\* summary is a string
StartRun(type, reportId, cvRubric, hasProjectRubric, cvResponse, projectResponse) ==
    [NoRun EXCEPT !.stage = "begin", !.type = type, !.reportId = reportId,
                  !.cvRubric = cvRubric, !.hasProjectRubric = hasProjectRubric,
                  !.cvResponse = cvResponse, !.projectResponse = projectResponse]

\* ------------------------------------------------------ the vector store
Collections == {"job_documents", "cv_rubrics", "project_rubrics", "case_studies"}

FILE_TYPE_TO_COLLECTION ==
    [job_description |-> "job_documents",
     cv_rubric |-> "cv_rubrics",
     project_rubric |-> "project_rubrics",
     case_study_brief |-> "case_studies"]

\* the collections the CV stage and the project stage query
CvCollections == <<"cv_rubrics", "job_documents">>

ProjectCollections == <<"project_rubrics", "case_studies">>

\* a vacancy other than those that query the store
OtherVacancy == MaxVacancies + 1

\* cosine distance of a chunk to the query text, in halves: 0, 0.5 and 1
Distances == 0..2

\* the metadata ingestPDFToChromaDB stores with a chunk, and the chunk's
\* distance to the query text; the id of the entry is made of jobVacancyId,
\* documentType, the file id (one file per vacancy and type) and chunk_index
Chunk(documentType, jobVacancyId, chunk_index, distance) ==
    [documentType |-> documentType, jobVacancyId |-> jobVacancyId,
     chunk_index |-> chunk_index, distance |-> distance]

DocumentTypeOf(collectionName) ==
    CHOOSE t \in DOMAIN FILE_TYPE_TO_COLLECTION :
        FILE_TYPE_TO_COLLECTION[t] = collectionName

\* the contents a collection can have, listed nearest chunk first: chunks of
\* the vacancy jobVacancyId and of another vacancy
CollectionContents(collectionName, jobVacancyId) ==
    {[i \in 1..Len(c) |-> Chunk(DocumentTypeOf(collectionName), c[i][1], i, c[i][2])] :
        c \in {d \in UNION {[1..n -> {jobVacancyId, OtherVacancy} \X Distances]
                               : n \in 0..MaxChunks} :
                  \A i \in 1..(Len(d) - 1) : d[i][2] <= d[i + 1][2]}}

EmptyStore == [name \in Collections |-> <<>>]

Min(a, b) == IF a <= b THEN a ELSE b

\* a where filter that lets every chunk through
MatchesAny(chunk, where) == TRUE

\* where: {jobVacancyId}; 0 stands for a call without the filter
Matches(chunk, where) == where = 0 \/ chunk.jobVacancyId = where

\* collection.query({queryTexts, nResults, where}): the nResults nearest of
\* the chunks that pass the filter, nearest first
CollectionQuery(collectionName, nResults, where) ==
    LET matching == SelectSeq(chroma[collectionName], LAMBDA c : Matches(c, where))
    IN SubSeq(matching, 1, Min(nResults, Len(matching)))

\* similarity = 1 - distance, in halves
Similarity(distance) == 2 - distance

\* one pass of the loop body in which a rejected query leaves the function
QueryCollectionUncaught(collectionName, topK, jobVacancyId, failing) ==
    IF collectionName \in failing
    THEN [threw |-> TRUE, documents |-> <<>>]
    ELSE [threw |-> FALSE,
          documents |-> CollectionQuery(collectionName, topK, jobVacancyId)]

\* one pass of the loop body of either function: try { query } catch { log }
QueryCollection(collectionName, topK, jobVacancyId, failing) ==
    IF collectionName \in failing
    THEN [threw |-> FALSE, documents |-> <<>>]
    ELSE [threw |-> FALSE,
          documents |-> CollectionQuery(collectionName, topK, jobVacancyId)]

\* allResults after the loop over collectionNames
RECURSIVE AllResults(_, _, _, _)
AllResults(collectionNames, topK, jobVacancyId, failing) ==
    IF collectionNames = <<>> THEN <<>>
    ELSE QueryCollection(Head(collectionNames), topK, jobVacancyId, failing).documents
            \o AllResults(Tail(collectionNames), topK, jobVacancyId, failing)

\* an exception left the loop
LoopThrew(collectionNames, topK, jobVacancyId, failing) ==
    \E i \in 1..Len(collectionNames) :
        QueryCollection(collectionNames[i], topK, jobVacancyId, failing).threw

\* the items pushed for the documents of the scored mode
WithSimilarity(documents) ==
    [i \in 1..Len(documents) |->
        [chunk |-> documents[i], similarity |-> Similarity(documents[i].distance)]]

\* the items pushed for the documents of the mode without scores
WithoutSimilarity(documents) == [i \in 1..Len(documents) |-> [chunk |-> documents[i]]]

\* a sort that leaves the results as they were pushed
SortKeepsOrder(results) == results

\* allResults.sort((a, b) => b.similarity - a.similarity): stable, descending
RECURSIVE SortBySimilarity(_)
SortBySimilarity(results) ==
    IF results = <<>> THEN <<>>
    ELSE LET x == Head(results)
             rest == SortBySimilarity(Tail(results))
             above == SelectSeq(rest, LAMBDA y : y.similarity > x.similarity)
             notAbove == SelectSeq(rest, LAMBDA y : y.similarity <= x.similarity)
         IN above \o <<x>> \o notAbove

NotCalled == [called |-> FALSE, threw |-> FALSE, results |-> <<>>]

queryVectorDBWithCosineSimilarity(collectionNames, topK, jobVacancyId, failing) ==
    LET allResults == SortBySimilarity(
            WithSimilarity(AllResults(collectionNames, topK, jobVacancyId, failing)))
    IN [called |-> TRUE,
        threw |-> LoopThrew(collectionNames, topK, jobVacancyId, failing),
        results |-> SubSeq(allResults, 1, Min(topK, Len(allResults)))]

queryVectorDB(collectionNames, topK, jobVacancyId, failing) ==
    [called |-> TRUE,
     threw |-> LoopThrew(collectionNames, topK, jobVacancyId, failing),
     results |-> WithoutSimilarity(
                     AllResults(collectionNames, topK, jobVacancyId, failing))]

\* the topK both stages of the evaluation pass
ContextTopK == 10

NoQuery ==
    [collectionNames |-> <<>>, topK |-> 0, jobVacancyId |-> 0, failing |-> {},
     cosine |-> NotCalled, plain |-> NotCalled]

\* ------------------------------------------------ the ingestion of a vacancy
\* a rubric parameter the standardizer's output does not have
Absent == [type |-> "absent", nan |-> FALSE, num |-> 0, den |-> 1]

\* what the standardizer's output can parse to, as parameter -> weight: the
\* requested shape, or one parameter absent, without weight (undefined), or
\* with a weight that is not a number
RubricOutputs(params) ==
    {UniformRubric(params)}
        \cup {[UniformRubric(params) EXCEPT ![p] = x] :
                 p \in params, x \in {Absent, Undefined, Str}}

\* standardizeRubric: callLLM, then parseLLMResponse, whose value is returned
\* as it is
standardizeRubric(response, output) ==
    [threw |-> parseLLMResponse(response).threw, rubric |-> output]

\* the documents ingestJobVacancy ingests, in its order
IngestOrder(type) ==
    IF type = "cv_with_test"
    THEN <<"job_description", "cv_rubric", "case_study_brief", "project_rubric">>
    ELSE <<"job_description", "cv_rubric">>

\* the entries ingestPDFToChromaDB prepares for one document: one per chunk
PreparedChunks(documentType, jobVacancyId) ==
    [i \in 1..MaxChunks |-> Chunk(documentType, jobVacancyId, i, 0)]

SameId(a, b) ==
    /\ a.jobVacancyId = b.jobVacancyId
    /\ a.documentType = b.documentType
    /\ a.chunk_index = b.chunk_index

\* an add that appends every entry, whatever ids the collection holds
CollectionAppend(contents, entries, onDuplicate) ==
    [threw |-> FALSE, contents |-> contents \o entries]

\* collection.add({ids, documents, metadatas}): ids are unique in a
\* collection; an entry whose id is already there is either left out or
\* makes the call reject, by the version of the store
CollectionAdd(contents, entries, onDuplicate) ==
    LET isNew(e) == \A i \in 1..Len(contents) : ~SameId(contents[i], e)
        fresh == SelectSeq(entries, isNew)
    IN IF onDuplicate = "reject" /\ Len(fresh) < Len(entries)
       THEN [threw |-> TRUE, contents |-> contents]
       ELSE [threw |-> FALSE, contents |-> contents \o fresh]

NoIngestion ==
    [stage |-> "none", type |-> "cv_only", vacancyId |-> 0,
     cvRubricText |-> DirectJson, cvRubricOutput |-> UniformRubric(CvParams),
     projectRubricOutput |-> UniformRubric(ProjectParams),
     status |-> "pending", added |-> 0, attemptsMade |-> 0,
     standardizedCvRubric |-> [p \in CvParams |-> Absent],
     standardizedProjectRubric |-> [p \in ProjectParams |-> Absent]]

\* the ingestion job of a vacancy as the worker takes it, with the text and
\* the parsed value of the standardizer's LLM responses
StartIngestion(type, vacancyId, cvRubricText, cvRubricOutput, projectRubricOutput) ==
    [NoIngestion EXCEPT !.stage = "begin", !.type = type, !.vacancyId = vacancyId,
                        !.cvRubricText = cvRubricText,
                        !.cvRubricOutput = cvRubricOutput,
                        !.projectRubricOutput = projectRubricOutput]

\* ---------------------------------------------------------- chunkText
\* a text is a sequence of characters: a letter, a sentence-ending mark (one
\* stands for . ! and ?) and a whitespace character
Mark == "."

Space == " "

Chars == {"a", Mark, Space}

\* String.prototype.trim
RECURSIVE Trim(_)
Trim(text) ==
    IF text = <<>> THEN <<>>
    ELSE IF Head(text) = Space THEN Trim(Tail(text))
    ELSE IF text[Len(text)] = Space THEN Trim(SubSeq(text, 1, Len(text) - 1))
    ELSE text

\* text.replace(/\s+/g, " "): every run of whitespace becomes one space
RECURSIVE CollapseWhitespace(_)
CollapseWhitespace(text) ==
    IF Len(text) <= 1 THEN text
    ELSE IF text[1] = Space /\ text[2] = Space THEN CollapseWhitespace(Tail(text))
    ELSE <<Head(text)>> \o CollapseWhitespace(Tail(text))

Normalize(text) == Trim(CollapseWhitespace(text))

\* the index after the spaces that start at lastIndex
RECURSIVE SkipSpaces(_, _)
SkipSpaces(normalized, lastIndex) ==
    IF lastIndex <= Len(normalized) /\ normalized[lastIndex] = Space
    THEN SkipSpaces(normalized, lastIndex + 1)
    ELSE lastIndex

\* the while loop over the matches from lastIndex on, then the remaining
\* text; a match of /[.!?]+(?=\s|$)/ ends at index i when a mark is there,
\* followed by whitespace or by the end of the text
RECURSIVE SentencesFrom(_, _, _)
SentencesFrom(normalized, lastIndex, i) ==
    IF i > Len(normalized)
    THEN IF lastIndex <= Len(normalized)
         THEN LET remaining == Trim(SubSeq(normalized, lastIndex, Len(normalized)))
              IN IF Len(remaining) > 0 THEN <<remaining>> ELSE <<>>
         ELSE <<>>
    ELSE IF normalized[i] = Mark /\ (i = Len(normalized) \/ normalized[i + 1] = Space)
    THEN LET sentence == Trim(SubSeq(normalized, lastIndex, i))
             next == SkipSpaces(normalized, i + 1)
         IN (IF Len(sentence) > 0 THEN <<sentence>> ELSE <<>>)
                \o SentencesFrom(normalized, next, next)
    ELSE SentencesFrom(normalized, lastIndex, i + 1)

splitIntoSentences(text) ==
    LET normalized == Normalize(text)
    IN IF normalized = <<>> THEN <<>>
       ELSE LET sentences == SentencesFrom(normalized, 1, 1)
            IN IF Len(sentences) > 0 THEN sentences ELSE <<normalized>>

\* Array.prototype.join(" ")
RECURSIVE Join(_)
Join(sentences) ==
    IF sentences = <<>> THEN <<>>
    ELSE IF Len(sentences) = 1 THEN sentences[1]
    ELSE sentences[1] \o <<Space>> \o Join(Tail(sentences))

\* sentences.reduce((sum, s) => sum + s.length + 1, 0) - 1
RECURSIVE SumLengths(_)
SumLengths(sentences) ==
    IF sentences = <<>> THEN 0
    ELSE Len(Head(sentences)) + 1 + SumLengths(Tail(sentences))

TotalLength(sentences) == SumLengths(sentences) - 1

\* a guard that only sees the empty string
IsBlankEmptyOnly(text) == text = <<>>

\* !text || text.trim().length === 0
IsBlank(text) == text = <<>> \/ Len(Trim(text)) = 0

\* a new chunk that starts without the closed chunk's sentences
OverlapSentencesNone(currentChunk, overlap) == <<>>

\* the sentences the new chunk starts with after currentChunk was closed
OverlapSentences(currentChunk, overlap) ==
    IF overlap > 0 /\ Len(currentChunk) > 0
    THEN LET overlapStart == IF Len(currentChunk) - overlap > 0
                             THEN Len(currentChunk) - overlap ELSE 0
         IN SubSeq(currentChunk, overlapStart + 1, Len(currentChunk))
    ELSE <<>>

\* the while loop over the sentences and the push of the remaining chunk
RECURSIVE ChunkLoop(_, _, _, _, _, _, _)
ChunkLoop(sentences, chunkSize, overlap, chunks, currentChunk, currentLength, sentenceIndex) ==
    IF sentenceIndex > Len(sentences)
    THEN IF Len(currentChunk) > 0 THEN Append(chunks, Trim(Join(currentChunk))) ELSE chunks
    ELSE LET sentence == sentences[sentenceIndex]
             sentenceLength == Len(sentence) + (IF Len(currentChunk) > 0 THEN 1 ELSE 0)
             closes == currentLength + sentenceLength > chunkSize /\ Len(currentChunk) > 0
             carried == IF closes THEN OverlapSentences(currentChunk, overlap)
                        ELSE currentChunk
             length == IF closes THEN Len(Join(carried)) ELSE currentLength
         IN ChunkLoop(sentences, chunkSize, overlap,
                      IF closes THEN Append(chunks, Trim(Join(currentChunk))) ELSE chunks,
                      Append(carried, sentence), length + sentenceLength,
                      sentenceIndex + 1)

\* chunks.filter(nonempty).map(chunk => /[.!?]$/.test(chunk.trim())
\*                                        ? chunk.trim() : chunk.trim() + ".")
FinishChunks(chunks) ==
    LET kept == SelectSeq(chunks, LAMBDA chunk : Len(chunk) > 0)
    IN [i \in 1..Len(kept) |->
           LET trimmed == Trim(kept[i])
           IN IF trimmed # <<>> /\ trimmed[Len(trimmed)] = Mark THEN trimmed
              ELSE trimmed \o <<Mark>>]

chunkText(text, chunkSize, overlap) ==
    IF IsBlank(text) THEN <<>>
    ELSE LET sentences == splitIntoSentences(text)
         IN IF Len(sentences) = 0 THEN <<text>>
            ELSE IF TotalLength(sentences) <= chunkSize
            THEN <<Trim(Join(sentences))>>
            ELSE FinishChunks(ChunkLoop(sentences, chunkSize, overlap, <<>>, <<>>, 0, 1))

NoChunking ==
    [called |-> FALSE, text |-> <<>>, chunkSize |-> 0, overlap |-> 0, chunks |-> <<>>]

\* startWorker() of the worker process constructs the evaluation worker only;
\* getJobVacancyIngestionWorker() is exported for a process that calls it
WorkerSets == {{"evaluation"}, {"evaluation", "ingestion"}}

\* ------------------------------------------------------------------ Init
Init ==
    /\ vacancies = [v \in VacancyIds |-> NoVacancy]
    /\ jobs = [j \in JobIds |-> NoJob]
    /\ ingestQ = [v \in VacancyIds |-> NoQueueJob]
    /\ evalQ = [j \in JobIds |-> NoQueueJob]
    /\ ingestPc = [v \in VacancyIds |-> "idle"]
    /\ evalPc = [j \in JobIds |-> "idle"]
    /\ evalVac = [j \in JobIds |-> NoVacancy]
    /\ evalErr = [j \in JobIds |-> ""]
    /\ resp = NoResp
    /\ inflightWriter = [v \in VacancyIds |-> "none"]
    /\ everActive = [v \in VacancyIds |-> FALSE]
    /\ resultWrites = [j \in JobIds |-> 0]
    /\ workers \in WorkerSets
    /\ run = NoRun
    /\ chroma = EmptyStore
    /\ vq = NoQuery
    /\ ing = NoIngestion
    /\ ct = NoChunking

\* ------------------------------------------------------------ the queues
\* queue.add(name, data, {jobId}): a job id already in the queue is not added again
QueueAdd(q, id, data) ==
    IF q[id].state = "none"
    THEN [q EXCEPT ![id] = [state |-> "waiting", attemptsMade |-> 0, data |-> data]]
    ELSE q

\* the handler threw: retried while attempts remain, else left failed
QueueFail(q, id) ==
    [q EXCEPT ![id] =
        [@ EXCEPT !.state = IF q[id].attemptsMade + 1 < Attempts
                            THEN "waiting" ELSE "failed",
                  !.attemptsMade = q[id].attemptsMade + 1]]

\* the handler returned
QueueComplete(q, id) ==
    [q EXCEPT ![id] = [@ EXCEPT !.state = "completed",
                                !.attemptsMade = q[id].attemptsMade + 1]]

\* ------------------------------------------------- createJobVacancyHandler
\* randomUUID(): an id no document uses yet
FreshVacancyIds == {v \in VacancyIds : vacancies[v].status = "none"}

\* ids carry no meaning: the model hands them out in order
NewVacancyId == CHOOSE v \in FreshVacancyIds : \A w \in FreshVacancyIds : v <= w

\* the file fields of the multipart form, named by the file type they store
FormFiles == {"job_description", "cv_rubric", "case_study_brief", "project_rubric"}

\* the uploads a request is tried with: every file, the two files of a
\* cv_only vacancy, and those two with the case study brief alone
Uploads ==
    {FormFiles,
     {"job_description", "cv_rubric"},
     {"job_description", "cv_rubric", "case_study_brief"}}

\* the required-files checks of the handler: the error returned, "" when the
\* request passes them
MissingFilesError(type, provided) ==
    IF ~({"job_description", "cv_rubric"} \subseteq provided)
    THEN "jobDescription and cvRubric files are required"
    ELSE IF type = "cv_with_test"
            /\ ~({"case_study_brief", "project_rubric"} \subseteq provided)
    THEN "caseStudyBrief and projectRubric files are required for cv_with_test type"
    ELSE ""

\* the files saved by a request that passed the checks
SavedFiles(type, provided) ==
    {"job_description", "cv_rubric"}
        \cup (IF type = "cv_with_test"
                  /\ {"case_study_brief", "project_rubric"} \subseteq provided
               THEN {"case_study_brief", "project_rubric"}
               ELSE {})

\* POST /job-vacancy with a title, a valid type and the PDF files `provided`
PostJobVacancy(type, provided) ==
    /\ IF MissingFilesError(type, provided) # ""
       THEN /\ resp' = Respond("createVacancy", 400, MissingFilesError(type, provided))
            /\ UNCHANGED <<vacancies, ingestQ>>
       ELSE /\ FreshVacancyIds # {}
            /\ \E enqueued \in BOOLEAN : LET v == NewVacancyId IN
                /\ vacancies' = [vacancies EXCEPT ![v] =
                       [NoVacancy EXCEPT !.status = "pending", !.type = type,
                                         !.files = SavedFiles(type, provided)]]
                /\ ingestQ' = IF enqueued THEN QueueAdd(ingestQ, v, v) ELSE ingestQ
                /\ resp' = IF enqueued THEN Respond("createVacancy", 200, "")
                           ELSE Respond("createVacancy", 500, "enqueue failed")
    /\ UNCHANGED <<workers, run, chroma, vq, ing, ct, jobs, evalQ, ingestPc, evalPc, evalVac, evalErr,
                   inflightWriter, resultWrites, everActive>>

\* POST /job-vacancy with every form field and file valid for its type
CreateJobVacancy(type) ==
    \E provided \in Uploads :
        /\ MissingFilesError(type, provided) = ""
        /\ PostJobVacancy(type, provided)

\* POST /job-vacancy without a required file
CreateJobVacancyRejected ==
    \E type \in JobTypes, provided \in Uploads :
        /\ MissingFilesError(type, provided) # ""
        /\ PostJobVacancy(type, provided)

\* -------------------------------------------------- updateJobVacancyHandler
\* PATCH /job-vacancy/:id {status}: findOneAndUpdate({vacancyId}, {status})
UpdateJobVacancy(v, status) ==
    /\ IF status \notin {"active", "inactive"}
       THEN /\ resp' = Respond("updateVacancy", 400, "status must be active or inactive")
            /\ UNCHANGED <<vacancies, inflightWriter, everActive>>
       ELSE IF vacancies[v].status = "none"
       THEN /\ resp' = Respond("updateVacancy", 404, "not found")
            /\ UNCHANGED <<vacancies, inflightWriter, everActive>>
       ELSE /\ vacancies' = [vacancies EXCEPT ![v].status = status]
            /\ inflightWriter' =
                   IF ingestPc[v] # "idle"
                   THEN [inflightWriter EXCEPT ![v] = "toggle"]
                   ELSE inflightWriter
            /\ everActive' = [everActive EXCEPT ![v] = @ \/ status = "active"]
            /\ resp' = Respond("updateVacancy", 200, "")
    /\ UNCHANGED <<workers, run, chroma, vq, ing, ct, jobs, ingestQ, evalQ, ingestPc, evalPc, evalVac, evalErr,
                   resultWrites>>

\* -------------------------------------------------- createEvaluationHandler
FreshJobIds == {j \in JobIds : jobs[j].status = "none"}

\* a status check that lets a deactivated vacancy through
VacancyAcceptsInactive(status) == status \in {"active", "inactive"}

\* if (vacancy.status !== "active") return 400
VacancyAccepts(status) == status = "active"

\* a validation chain without the report requirement of cv_with_test
ValidationErrorReportOptional(vacancy, cvExists, report) ==
    IF vacancy.status = "none" THEN "vacancy not found"
    ELSE IF vacancy.status # "active" THEN "vacancy is not active"
    ELSE IF ~cvExists THEN "CV file not found"
    ELSE IF report = "missing" THEN "report file not found"
    ELSE ""

\* the validation chain of the handler: the error it returns, "" when the
\* request passes. report is "absent" (no reportId), "missing" (no such file)
\* or "present"
ValidationError(vacancy, cvExists, report) ==
    IF vacancy.status = "none" THEN "vacancy not found"
    ELSE IF ~VacancyAccepts(vacancy.status) THEN "vacancy is not active"
    ELSE IF ~cvExists THEN "CV file not found"
    ELSE IF report = "missing" THEN "report file not found"
    ELSE IF vacancy.type = "cv_with_test" /\ report = "absent" THEN "reportId is required"
    ELSE ""

ValidationCode(error) ==
    IF error \in {"vacancy is not active", "reportId is required"} THEN 400 ELSE 404

NewJobId == CHOOSE j \in FreshJobIds : \A k \in FreshJobIds : j <= k

\* what the Job schema keeps of the object passed to JobModel.create: the
\* schema has the paths jobId, status, fileIds, jobTitle, result and error,
\* and a key that is no path of the schema (vacancyId) is not stored
JobSchemaCast(doc) == [doc EXCEPT !.vacancyId = 0]

\* POST /evaluate {vacancyId, cvId, reportId?}
\* outcome: "ok", or the call that threw: "create" (JobModel.create rejects,
\* as it does where the schema requires the jobTitle the handler never
\* passes) or "enqueue" (addEvaluationJob rejects)
CreateEvaluation(v, cvExists, report, outcome) ==
    /\ FreshJobIds # {}
    /\ LET error == ValidationError(vacancies[v], cvExists, report)
           j == NewJobId
       IN
       IF error # ""
       THEN /\ resp' = Respond("createEvaluation", ValidationCode(error), error)
            /\ UNCHANGED <<jobs, evalQ>>
       ELSE /\ jobs' = IF outcome = "create" THEN jobs
                       ELSE [jobs EXCEPT ![j] = JobSchemaCast(
                               [NoJob EXCEPT !.status = "queued", !.vacancyId = v,
                                  !.fileIds = IF report = "present"
                                              THEN {"cv", "report"} ELSE {"cv"}])]
            /\ evalQ' = IF outcome = "ok" THEN QueueAdd(evalQ, j, v) ELSE evalQ
            /\ resp' = IF outcome = "ok" THEN Respond("createEvaluation", 200, "")
                       ELSE Respond("createEvaluation", 500, outcome)
    /\ UNCHANGED <<workers, run, chroma, vq, ing, ct, vacancies, ingestQ, ingestPc, evalPc, evalVac, evalErr,
                   inflightWriter, resultWrites, everActive>>

\* ------------------------------------------------- the ingestion worker
\* the worker takes the job and runs the handler up to the try block
IngestPickup(v) ==
    /\ "ingestion" \in workers
    /\ ingestQ[v].state = "waiting"
    /\ ingestPc[v] = "idle"
    /\ ingestQ' = [ingestQ EXCEPT ![v].state = "active"]
    /\ ingestPc' = [ingestPc EXCEPT ![v] = "try"]
    /\ inflightWriter' = [inflightWriter EXCEPT ![v] = "none"]
    /\ UNCHANGED <<workers, run, chroma, vq, ing, ct, vacancies, jobs, evalQ, evalPc, evalVac, evalErr, resp,
                   resultWrites, everActive>>

\* a logToJob before the try block rejects: the handler throws, no status written
IngestPreThrow(v) ==
    /\ "ingestion" \in workers
    /\ ingestQ[v].state = "waiting"
    /\ ingestPc[v] = "idle"
    /\ ingestQ' = QueueFail(ingestQ, v)
    /\ UNCHANGED <<workers, run, chroma, vq, ing, ct, vacancies, jobs, evalQ, ingestPc, evalPc, evalVac, evalErr,
                   resp, inflightWriter, resultWrites, everActive>>

\* findOne, then findOneAndUpdate({vacancyId}, {status: "processing"})
IngestBegin(v) ==
    /\ ingestPc[v] = "try"
    /\ IF vacancies[v].status = "none"
       THEN /\ ingestPc' = [ingestPc EXCEPT ![v] = "catch"]
            /\ UNCHANGED <<vacancies, inflightWriter>>
       ELSE /\ vacancies' = [vacancies EXCEPT ![v].status = "processing"]
            /\ inflightWriter' = [inflightWriter EXCEPT ![v] = "worker"]
            /\ ingestPc' = [ingestPc EXCEPT ![v] = "ingest"]
    /\ UNCHANGED <<workers, run, chroma, vq, ing, ct, jobs, ingestQ, evalQ, evalPc, evalVac, evalErr, resp,
                   resultWrites, everActive>>

\* the database call or a logToJob at the start of the try block rejects
IngestBeginThrow(v) ==
    /\ ingestPc[v] = "try"
    /\ ingestPc' = [ingestPc EXCEPT ![v] = "catch"]
    /\ UNCHANGED <<workers, run, chroma, vq, ing, ct, vacancies, jobs, ingestQ, evalQ, evalPc, evalVac, evalErr,
                   resp, inflightWriter, resultWrites, everActive>>

\* the update that stores what ingestJobVacancy returned; out stands for the
\* content the LLM calls of this attempt produced. A field that is undefined
\* in the update (no project rubric for cv_only) stays as stored
IngestionUpdate(vacancy, type, out) ==
    [vacancy EXCEPT
        !.standardizedCvRubric = out,
        !.standardizedProjectRubric = IF type = "cv_with_test" THEN out ELSE @,
        !.cvEvaluationQueries = out,
        !.projectEvaluationQueries = IF type = "cv_with_test" THEN out ELSE @,
        !.status = "active"]

\* ingestJobVacancy returned; the results and status "active" are written in one update
IngestSucceed(v) ==
    /\ ingestPc[v] = "ingest"
    /\ vacancies[v].status # "none"
    /\ \E out \in LLMOutputs :
          vacancies' = [vacancies EXCEPT ![v] =
              IngestionUpdate(@, vacancies[v].type, out)]
    /\ inflightWriter' = [inflightWriter EXCEPT ![v] = "worker"]
    /\ everActive' = [everActive EXCEPT ![v] = TRUE]
    /\ ingestPc' = [ingestPc EXCEPT ![v] = "post"]
    /\ UNCHANGED <<workers, run, chroma, vq, ing, ct, jobs, ingestQ, evalQ, evalPc, evalVac, evalErr, resp,
                   resultWrites>>

\* a step of ingestJobVacancy (or a logToJob around it) throws
IngestThrow(v) ==
    /\ ingestPc[v] = "ingest"
    /\ ingestPc' = [ingestPc EXCEPT ![v] = "catch"]
    /\ UNCHANGED <<workers, run, chroma, vq, ing, ct, vacancies, jobs, ingestQ, evalQ, evalPc, evalVac, evalErr,
                   resp, inflightWriter, resultWrites, everActive>>

\* the logToJob calls after the final update pass and the handler returns
IngestReturn(v) ==
    /\ ingestPc[v] = "post"
    /\ ingestPc' = [ingestPc EXCEPT ![v] = "idle"]
    /\ ingestQ' = QueueComplete(ingestQ, v)
    /\ UNCHANGED <<workers, run, chroma, vq, ing, ct, vacancies, jobs, evalQ, evalPc, evalVac, evalErr, resp,
                   inflightWriter, resultWrites, everActive>>

\* a logToJob after the final update rejects, still inside the try block
IngestPostThrow(v) ==
    /\ ingestPc[v] = "post"
    /\ ingestPc' = [ingestPc EXCEPT ![v] = "catch"]
    /\ UNCHANGED <<workers, run, chroma, vq, ing, ct, vacancies, jobs, ingestQ, evalQ, evalPc, evalVac, evalErr,
                   resp, inflightWriter, resultWrites, everActive>>

\* catch: findOneAndUpdate({vacancyId}, {status: "failed"}); throw error
IngestCatch(v) ==
    /\ ingestPc[v] = "catch"
    /\ vacancies' = IF vacancies[v].status = "none" THEN vacancies
                    ELSE [vacancies EXCEPT ![v].status = "failed"]
    /\ ingestPc' = [ingestPc EXCEPT ![v] = "idle"]
    /\ ingestQ' = QueueFail(ingestQ, v)
    /\ inflightWriter' = IF vacancies[v].status = "none" THEN inflightWriter
                         ELSE [inflightWriter EXCEPT ![v] = "worker"]
    /\ UNCHANGED <<workers, run, chroma, vq, ing, ct, jobs, evalQ, evalPc, evalVac, evalErr, resp, resultWrites,
                   everActive>>

\* catch: job.log rejects before the status update is reached, or the update
\* itself rejects; the handler throws with the status as it was
IngestCatchThrow(v) ==
    /\ ingestPc[v] = "catch"
    /\ ingestPc' = [ingestPc EXCEPT ![v] = "idle"]
    /\ ingestQ' = QueueFail(ingestQ, v)
    /\ UNCHANGED <<workers, run, chroma, vq, ing, ct, vacancies, jobs, evalQ, evalPc, evalVac, evalErr, resp,
                   inflightWriter, resultWrites, everActive>>

\* ------------------------------------------------ the evaluation worker
\* the worker takes the job; the handler loads the vacancy named in the job
\* data before its try block
EvalPickup(j) ==
    /\ "evaluation" \in workers
    /\ evalQ[j].state = "waiting"
    /\ evalPc[j] = "idle"
    /\ IF vacancies[evalQ[j].data].status = "none"
       THEN /\ evalQ' = QueueFail(evalQ, j)
            /\ UNCHANGED <<evalPc, evalVac>>
       ELSE /\ evalQ' = [evalQ EXCEPT ![j].state = "active"]
            /\ evalPc' = [evalPc EXCEPT ![j] = "try"]
            /\ evalVac' = [evalVac EXCEPT ![j] = vacancies[evalQ[j].data]]
    /\ UNCHANGED <<workers, run, chroma, vq, ing, ct, vacancies, jobs, ingestQ, ingestPc, evalErr, resp,
                   inflightWriter, resultWrites, everActive>>

\* a logToJob or the vacancy lookup before the try block rejects
EvalPreThrow(j) ==
    /\ "evaluation" \in workers
    /\ evalQ[j].state = "waiting"
    /\ evalPc[j] = "idle"
    /\ evalQ' = QueueFail(evalQ, j)
    /\ UNCHANGED <<workers, run, chroma, vq, ing, ct, vacancies, jobs, ingestQ, ingestPc, evalPc, evalVac, evalErr,
                   resp, inflightWriter, resultWrites, everActive>>

\* findOneAndUpdate({jobId}, {status: "processing"})
EvalBegin(j) ==
    /\ evalPc[j] = "try"
    /\ jobs' = [jobs EXCEPT ![j].status = "processing"]
    /\ evalPc' = [evalPc EXCEPT ![j] = "run"]
    /\ UNCHANGED <<workers, run, chroma, vq, ing, ct, vacancies, ingestQ, evalQ, ingestPc, evalVac, evalErr, resp,
                   inflightWriter, resultWrites, everActive>>

EvalBeginThrow(j) ==
    /\ evalPc[j] = "try"
    /\ evalPc' = [evalPc EXCEPT ![j] = "catch"]
    /\ evalErr' = [evalErr EXCEPT ![j] = "update failed"]
    /\ UNCHANGED <<workers, run, chroma, vq, ing, ct, vacancies, jobs, ingestQ, evalQ, ingestPc, evalVac, resp,
                   inflightWriter, resultWrites, everActive>>

\* the conditions under which the three stages can run to the end with the
\* vacancy document the handler holds: the report file for cv_with_test, and
\* the rubric whose weights the CV score reads
PipelineCanFinish(vacancy, fileIds) ==
    /\ vacancy.type = "cv_with_test" => "report" \in fileIds
    /\ vacancy.standardizedCvRubric # 0

\* the result object compiled from the stages
CompileResult(vacancy) ==
    [defined |-> TRUE, project |-> vacancy.type = "cv_with_test"]

\* all stages returned: findOneAndUpdate({jobId}, {status: "completed", result})
EvalSucceed(j) ==
    /\ evalPc[j] = "run"
    /\ PipelineCanFinish(evalVac[j], jobs[j].fileIds)
    /\ jobs' = [jobs EXCEPT ![j].status = "completed",
                            ![j].result = CompileResult(evalVac[j])]
    /\ resultWrites' = [resultWrites EXCEPT ![j] = @ + 1]
    /\ evalPc' = [evalPc EXCEPT ![j] = "post"]
    /\ UNCHANGED <<workers, run, chroma, vq, ing, ct, vacancies, ingestQ, evalQ, ingestPc, evalVac, evalErr, resp,
                   inflightWriter, everActive>>

\* a stage throws (file lookup, extraction, retrieval, LLM call, parsing, scoring)
EvalThrow(j) ==
    /\ evalPc[j] = "run"
    /\ evalPc' = [evalPc EXCEPT ![j] = "catch"]
    /\ evalErr' = [evalErr EXCEPT ![j] = "stage failed"]
    /\ UNCHANGED <<workers, run, chroma, vq, ing, ct, vacancies, jobs, ingestQ, evalQ, ingestPc, evalVac, resp,
                   inflightWriter, resultWrites, everActive>>

\* the logToJob calls after the final update pass and the handler returns
EvalReturn(j) ==
    /\ evalPc[j] = "post"
    /\ evalPc' = [evalPc EXCEPT ![j] = "idle"]
    /\ evalQ' = QueueComplete(evalQ, j)
    /\ evalVac' = [evalVac EXCEPT ![j] = NoVacancy]
    /\ UNCHANGED <<workers, run, chroma, vq, ing, ct, vacancies, jobs, ingestQ, ingestPc, evalErr, resp,
                   inflightWriter, resultWrites, everActive>>

\* a logToJob after the final update rejects, still inside the try block
EvalPostThrow(j) ==
    /\ evalPc[j] = "post"
    /\ evalPc' = [evalPc EXCEPT ![j] = "catch"]
    /\ evalErr' = [evalErr EXCEPT ![j] = "log failed"]
    /\ UNCHANGED <<workers, run, chroma, vq, ing, ct, vacancies, jobs, ingestQ, evalQ, ingestPc, evalVac, resp,
                   inflightWriter, resultWrites, everActive>>

\* catch: findOneAndUpdate({jobId}, {status: "failed", error}); throw error
EvalCatch(j) ==
    /\ evalPc[j] = "catch"
    /\ jobs' = [jobs EXCEPT ![j].status = "failed", ![j].error = evalErr[j]]
    /\ evalPc' = [evalPc EXCEPT ![j] = "idle"]
    /\ evalQ' = QueueFail(evalQ, j)
    /\ evalVac' = [evalVac EXCEPT ![j] = NoVacancy]
    /\ evalErr' = [evalErr EXCEPT ![j] = ""]
    /\ UNCHANGED <<workers, run, chroma, vq, ing, ct, vacancies, ingestQ, ingestPc, resp, inflightWriter,
                   resultWrites, everActive>>

\* catch: job.log rejects before the status update is reached, or the update
\* itself rejects; the handler throws with the status as it was
EvalCatchThrow(j) ==
    /\ evalPc[j] = "catch"
    /\ evalPc' = [evalPc EXCEPT ![j] = "idle"]
    /\ evalQ' = QueueFail(evalQ, j)
    /\ evalVac' = [evalVac EXCEPT ![j] = NoVacancy]
    /\ evalErr' = [evalErr EXCEPT ![j] = ""]
    /\ UNCHANGED <<workers, run, chroma, vq, ing, ct, vacancies, jobs, ingestQ, ingestPc, resp, inflightWriter,
                   resultWrites, everActive>>

\* ------------------------------------------------------------------ Next
Next ==
    \/ \E type \in JobTypes : CreateJobVacancy(type)
    \/ CreateJobVacancyRejected
    \/ \E v \in VacancyIds, status \in {"active", "inactive", "archived"} :
          UpdateJobVacancy(v, status)
    \/ \E v \in VacancyIds, cvExists \in BOOLEAN,
          report \in {"absent", "missing", "present"},
          outcome \in {"ok", "create", "enqueue"} :
          CreateEvaluation(v, cvExists, report, outcome)
    \/ \E v \in VacancyIds : IngestPickup(v)
    \/ \E v \in VacancyIds : IngestPreThrow(v)
    \/ \E v \in VacancyIds : IngestBegin(v)
    \/ \E v \in VacancyIds : IngestBeginThrow(v)
    \/ \E v \in VacancyIds : IngestSucceed(v)
    \/ \E v \in VacancyIds : IngestThrow(v)
    \/ \E v \in VacancyIds : IngestReturn(v)
    \/ \E v \in VacancyIds : IngestPostThrow(v)
    \/ \E v \in VacancyIds : IngestCatch(v)
    \/ \E v \in VacancyIds : IngestCatchThrow(v)
    \/ \E j \in JobIds : EvalPickup(j)
    \/ \E j \in JobIds : EvalPreThrow(j)
    \/ \E j \in JobIds : EvalBegin(j)
    \/ \E j \in JobIds : EvalBeginThrow(j)
    \/ \E j \in JobIds : EvalSucceed(j)
    \/ \E j \in JobIds : EvalThrow(j)
    \/ \E j \in JobIds : EvalReturn(j)
    \/ \E j \in JobIds : EvalPostThrow(j)
    \/ \E j \in JobIds : EvalCatch(j)
    \/ \E j \in JobIds : EvalCatchThrow(j)

Spec == Init /\ [][Next]_vars

\* -------------------------------------------- the handler on its own
\* a vacancy document whose generated fields hold the content out (0: not generated)
VacancyDoc(status, type, out) ==
    [status |-> status, type |-> type, files |-> RequiredFiles(type),
     standardizedCvRubric |-> out,
     standardizedProjectRubric |-> IF type = "cv_with_test" THEN out ELSE 0,
     cvEvaluationQueries |-> out,
     projectEvaluationQueries |-> IF type = "cv_with_test" THEN out ELSE 0,
     error |-> ""]

\* the documents Spec leaves in the vacancy collection: a pending vacancy has
\* not been ingested, every other status occurs with and without generated fields
VacancyDocs ==
    {NoVacancy}
    \cup {VacancyDoc("pending", ty, 0) : ty \in JobTypes}
    \cup {VacancyDoc(st, ty, out) :
            st \in {"processing", "active", "inactive", "failed"},
            ty \in JobTypes, out \in 0..MaxOutputs}

\* the request handlers against any content of the vacancy collection
InitCreate ==
    /\ vacancies \in [VacancyIds -> VacancyDocs]
    /\ jobs = [j \in JobIds |-> NoJob]
    /\ ingestQ = [v \in VacancyIds |-> NoQueueJob]
    /\ evalQ = [j \in JobIds |-> NoQueueJob]
    /\ ingestPc = [v \in VacancyIds |-> "idle"]
    /\ evalPc = [j \in JobIds |-> "idle"]
    /\ evalVac = [j \in JobIds |-> NoVacancy]
    /\ evalErr = [j \in JobIds |-> ""]
    /\ resp = NoResp
    /\ inflightWriter = [v \in VacancyIds |-> "none"]
    /\ everActive = [v \in VacancyIds |-> vacancies[v].status = "active"]
    /\ resultWrites = [j \in JobIds |-> 0]
    /\ workers \in WorkerSets
    /\ run = NoRun
    /\ chroma = EmptyStore
    /\ vq = NoQuery
    /\ ing = NoIngestion
    /\ ct = NoChunking

NextCreate ==
    \/ \E v \in VacancyIds, status \in {"active", "inactive", "archived"} :
          UpdateJobVacancy(v, status)
    \/ \E v \in VacancyIds, cvExists \in BOOLEAN,
          report \in {"absent", "missing", "present"},
          outcome \in {"ok", "create", "enqueue"} :
          CreateEvaluation(v, cvExists, report, outcome)

SpecCreate == InitCreate /\ [][NextCreate]_vars

\* ------------------------------------------------ the workers' scheduling
\* every step of the ingestion handler run for vacancy v
IngestWorker(v) ==
    \/ IngestPickup(v) \/ IngestPreThrow(v)
    \/ IngestBegin(v) \/ IngestBeginThrow(v)
    \/ IngestSucceed(v) \/ IngestThrow(v)
    \/ IngestReturn(v) \/ IngestPostThrow(v)
    \/ IngestCatch(v) \/ IngestCatchThrow(v)

\* every step of the evaluation handler run for job j
EvalWorker(j) ==
    \/ EvalPickup(j) \/ EvalPreThrow(j)
    \/ EvalBegin(j) \/ EvalBeginThrow(j)
    \/ EvalSucceed(j) \/ EvalThrow(j)
    \/ EvalReturn(j) \/ EvalPostThrow(j)
    \/ EvalCatch(j) \/ EvalCatchThrow(j)

\* a constructed worker takes every waiting job (the backoff delay passes) and
\* every await of the handler settles: it answers or it rejects
IngestFairness == \A v \in VacancyIds : WF_vars(IngestWorker(v))

EvalFairness == \A j \in JobIds : WF_vars(EvalWorker(j))

\* vacancy requests and the ingestion worker, fairly scheduled
NextIngest ==
    \/ \E type \in JobTypes : CreateJobVacancy(type)
    \/ CreateJobVacancyRejected
    \/ \E v \in VacancyIds, status \in {"active", "inactive", "archived"} :
          UpdateJobVacancy(v, status)
    \/ \E v \in VacancyIds : IngestWorker(v)

SpecIngestFair == Init /\ [][NextIngest]_vars /\ IngestFairness

\* submission requests and the evaluation worker, fairly scheduled, against
\* any content of the vacancy collection
NextEval ==
    \/ \E v \in VacancyIds, cvExists \in BOOLEAN,
          report \in {"absent", "missing", "present"},
          outcome \in {"ok", "create", "enqueue"} :
          CreateEvaluation(v, cvExists, report, outcome)
    \/ \E j \in JobIds : EvalWorker(j)

SpecEvalFair == InitCreate /\ [][NextEval]_vars /\ EvalFairness

\* --------------------------------------- one attempt, stage by stage
\* the try block starts: the job document is set to processing
RunBegin ==
    /\ run.stage = "begin"
    /\ run' = [run EXCEPT !.stage = StageAfter("begin"),
                          !.status = "processing",
                          !.trace = Append(@, "status:processing")]
    /\ UNCHANGED <<vacancies, jobs, ingestQ, evalQ, ingestPc, evalPc, evalVac,
                   evalErr, resp, inflightWriter, everActive, resultWrites,
                   workers, chroma, vq, ing, ct>>

\* the file documents are retrieved; a cv_with_test vacancy needs a reportId
RunRetrieveFiles ==
    /\ run.stage = "files"
    /\ run' = [run EXCEPT !.stage =
                  IF ~run.reportId /\ run.type = "cv_with_test" THEN "threw"
                  ELSE StageAfter("files")]
    /\ UNCHANGED <<vacancies, jobs, ingestQ, evalQ, ingestPc, evalPc, evalVac,
                   evalErr, resp, inflightWriter, everActive, resultWrites,
                   workers, chroma, vq, ing, ct>>

\* stage 1: the CV is extracted, context retrieved, the LLM called, its
\* response parsed and the match rate computed
RunCvStage ==
    /\ run.stage = "cv"
    /\ IF parseLLMResponse(run.cvText).threw
       THEN run' = [run EXCEPT !.stage = "threw", !.trace = @ \o CvStageEvents]
       ELSE run' = [run EXCEPT
                       !.stage = StageAfter("cv"),
                       !.trace = @ \o CvStageEvents \o <<"cvMatchRate">>,
                       !.cvContext = queryVectorDBWithCosineSimilarity(
                                         CvCollections, ContextTopK, run.jobVacancyId,
                                         IF run.storeDown THEN Collections ELSE {}).results,
                       !.cvMatchRate = CvMatchRate(run.cvResponse, run.cvRubric)]
    /\ UNCHANGED <<vacancies, jobs, ingestQ, evalQ, ingestPc, evalPc, evalVac,
                   evalErr, resp, inflightWriter, everActive, resultWrites,
                   workers, chroma, vq, ing, ct>>

\* stage 2: skipped for cv_only; else the report is extracted, context
\* retrieved, the LLM called and the response parsed, gated and scored
RunProjectStage ==
    /\ run.stage = "project"
    /\ IF ~RunsProjectStage(run.type)
       THEN run' = [run EXCEPT !.stage = StageAfter("project")]
       ELSE IF parseLLMResponse(run.projectText).threw
       THEN run' = [run EXCEPT
                       !.stage = "threw",
                       !.calls = {"extractTextFromPDF", "queryVectorDB", "callLLM"},
                       !.trace = @ \o ProjectStageEvents]
       ELSE LET out == ProjectStage(run.projectResponse, run.hasProjectRubric,
                                    run.projectRubric)
            IN run' = [run EXCEPT
                          !.stage = IF out.threw THEN "threw" ELSE StageAfter("project"),
                          !.calls = {"extractTextFromPDF", "queryVectorDB", "callLLM"},
                          !.trace = @ \o ProjectStageEvents,
                          !.projectContext = queryVectorDB(
                                                 ProjectCollections, ContextTopK,
                                                 run.jobVacancyId,
                                                 IF run.storeDown THEN Collections ELSE {}).results,
                          !.projectEvaluation = out.projectEvaluation,
                          !.projectScore = out.projectScore]
    /\ UNCHANGED <<vacancies, jobs, ingestQ, evalQ, ingestPc, evalPc, evalVac,
                   evalErr, resp, inflightWriter, everActive, resultWrites,
                   workers, chroma, vq, ing, ct>>

\* stage 3: the summary LLM call, its response parsed, and the log line that
\* reads summary.overall_summary.length
RunSummary ==
    /\ run.stage = "summary"
    /\ run' = [run EXCEPT
                  !.stage = IF parseLLMResponse(run.summaryText).threw
                               \/ ~HasProperties(run.overallSummary)
                            THEN "threw" ELSE StageAfter("summary"),
                  !.trace = @ \o SummaryStageEvents]
    /\ UNCHANGED <<vacancies, jobs, ingestQ, evalQ, ingestPc, evalPc, evalVac,
                   evalErr, resp, inflightWriter, everActive, resultWrites,
                   workers, chroma, vq, ing, ct>>

\* the final result is compiled and written with status completed
RunCompile ==
    /\ run.stage = "compile"
    /\ run' = [run EXCEPT
                  !.stage = StageAfter("compile"),
                  !.result = CompileFinalResult(run.cvMatchRate, run.cvResponse,
                                 run.projectEvaluation, run.projectScore,
                                 run.overallSummary),
                  !.status = "completed",
                  !.persisted = TRUE,
                  !.trace = Append(@, "status:completed")]
    /\ UNCHANGED <<vacancies, jobs, ingestQ, evalQ, ingestPc, evalPc, evalVac,
                   evalErr, resp, inflightWriter, everActive, resultWrites,
                   workers, chroma, vq, ing, ct>>

\* the log lines after the write, the last of which reads
\* summary.overall_summary.substring(0, 100); then the handler returns
RunReturn ==
    /\ run.stage = "post"
    /\ run' = [run EXCEPT !.stage = IF HasSubstring(run.overallSummary)
                                    THEN StageAfter("post") ELSE "threw"]
    /\ UNCHANGED <<vacancies, jobs, ingestQ, evalQ, ingestPc, evalPc, evalVac,
                   evalErr, resp, inflightWriter, everActive, resultWrites,
                   workers, chroma, vq, ing, ct>>

\* the catch block: job.log answers, the job document is set to failed and
\* the error is thrown on to BullMQ, which counts the attempt
RunCatch ==
    /\ run.stage = "threw"
    /\ run' = [run EXCEPT !.stage = "failed",
                          !.status = "failed",
                          !.trace = Append(@, "status:failed"),
                          !.attemptsMade = @ + 1]
    /\ UNCHANGED <<vacancies, jobs, ingestQ, evalQ, ingestPc, evalPc, evalVac,
                   evalErr, resp, inflightWriter, everActive, resultWrites,
                   workers, chroma, vq, ing, ct>>

\* the catch block when job.log rejects: the failed update is not reached
RunCatchThrow ==
    /\ run.stage = "threw"
    /\ run' = [run EXCEPT !.stage = "failed", !.attemptsMade = @ + 1]
    /\ UNCHANGED <<vacancies, jobs, ingestQ, evalQ, ingestPc, evalPc, evalVac,
                   evalErr, resp, inflightWriter, everActive, resultWrites,
                   workers, chroma, vq, ing, ct>>

\* BullMQ runs the handler again from its first line, with fresh locals; the
\* job document keeps what was written to it
RunRetry ==
    /\ run.stage = "failed"
    /\ run.attemptsMade < Attempts
    /\ run' = [run EXCEPT !.stage = "begin", !.trace = <<>>, !.calls = {},
                          !.cvMatchRate = NoRun.cvMatchRate,
                          !.projectEvaluation = NoRun.projectEvaluation,
                          !.projectScore = NoRun.projectScore]
    /\ UNCHANGED <<vacancies, jobs, ingestQ, evalQ, ingestPc, evalPc, evalVac,
                   evalErr, resp, inflightWriter, everActive, resultWrites,
                   workers, chroma, vq, ing, ct>>

NextRun ==
    \/ RunBegin \/ RunRetrieveFiles \/ RunCvStage \/ RunProjectStage
    \/ RunSummary \/ RunCompile \/ RunReturn

\* the attempt with its catch block and BullMQ's retries
NextAttempt == NextRun \/ RunCatch \/ RunCatchThrow \/ RunRetry

\* the collections, queues and handler positions with nothing in them
InitStoresOnly ==
    /\ vacancies = [v \in VacancyIds |-> NoVacancy]
    /\ jobs = [j \in JobIds |-> NoJob]
    /\ ingestQ = [v \in VacancyIds |-> NoQueueJob]
    /\ evalQ = [j \in JobIds |-> NoQueueJob]
    /\ ingestPc = [v \in VacancyIds |-> "idle"]
    /\ evalPc = [j \in JobIds |-> "idle"]
    /\ evalVac = [j \in JobIds |-> NoVacancy]
    /\ evalErr = [j \in JobIds |-> ""]
    /\ resp = NoResp
    /\ inflightWriter = [v \in VacancyIds |-> "none"]
    /\ everActive = [v \in VacancyIds |-> FALSE]
    /\ resultWrites = [j \in JobIds |-> 0]
    /\ workers = {"evaluation"}

\* the records and queues untouched by a lone attempt
InitStores ==
    /\ vacancies = [v \in VacancyIds |-> NoVacancy]
    /\ jobs = [j \in JobIds |-> NoJob]
    /\ ingestQ = [v \in VacancyIds |-> NoQueueJob]
    /\ evalQ = [j \in JobIds |-> NoQueueJob]
    /\ ingestPc = [v \in VacancyIds |-> "idle"]
    /\ evalPc = [j \in JobIds |-> "idle"]
    /\ evalVac = [j \in JobIds |-> NoVacancy]
    /\ evalErr = [j \in JobIds |-> ""]
    /\ resp = NoResp
    /\ inflightWriter = [v \in VacancyIds |-> "none"]
    /\ everActive = [v \in VacancyIds |-> FALSE]
    /\ resultWrites = [j \in JobIds |-> 0]
    /\ workers = {"evaluation"}
    /\ chroma = EmptyStore
    /\ vq = NoQuery
    /\ ing = NoIngestion
    /\ ct = NoChunking

\* the responses whose four grades lie on the scale
GradedCvResponses == [CvParams -> {Num(n) : n \in GradeMin..GradeMax}]

\* the CV stage over every stored rubric with every response graded on the
\* scale, and over every CV-scoring response under a uniform rubric
InitCvStage ==
    /\ InitStores
    /\ \/ \E cvRubric \in CvRubrics, cvResponse \in GradedCvResponses :
             run = StartRun("cv_only", FALSE, cvRubric, FALSE, cvResponse,
                            NoProjectEvaluation)
       \/ \E cvResponse \in CvResponses :
             run = StartRun("cv_only", FALSE, UniformRubric(CvParams), FALSE,
                            cvResponse, NoProjectEvaluation)

SpecCvStage == InitCvStage /\ [][NextRun]_vars

\* a well-formed CV side: top grades under a uniform rubric
TopGrades == [p \in CvParams |-> Num(GradeMax)]

\* the project stage over both vacancy types, with and without a reportId and
\* a project rubric, and every project-scoring response; also the relevant
\* responses with five numeric scores of which one is above the scale
InitProjectStage ==
    /\ InitStores
    /\ \/ \E reportId \in BOOLEAN :
             run = StartRun("cv_only", reportId, UniformRubric(CvParams), FALSE,
                            TopGrades, NoProjectEvaluation)
       \/ \E reportId \in BOOLEAN, hasProjectRubric \in BOOLEAN,
             projectResponse \in ProjectResponses :
             run = StartRun("cv_with_test", reportId, UniformRubric(CvParams),
                            hasProjectRubric, TopGrades, projectResponse)
       \/ \E p \in ProjectParams :
             run = StartRun("cv_with_test", TRUE, UniformRubric(CvParams), TRUE, TopGrades,
                            [isNull |-> FALSE, is_relevant |-> "true", feedback |-> Str,
                             scores |-> [q \in ProjectParams |->
                                            IF q = p THEN Num(GradeMax + MaxExcess)
                                            ELSE Num(GradeMax)]])

SpecProjectStage == InitProjectStage /\ [][NextRun]_vars

\* a well-formed project response: relevant, every score the top grade
TopProjectResponse ==
    [isNull |-> FALSE, is_relevant |-> "true", feedback |-> Str,
     scores |-> [p \in ProjectParams |-> Num(GradeMax)]]

\* attempts of both vacancy types over every response text of the three LLM
\* calls and every kind of overall_summary, the parsed scores well-formed
InitAttempt ==
    /\ InitStores
    /\ \E type \in JobTypes, cvText \in LLMTexts, projectText \in LLMTexts,
          summaryText \in LLMTexts, overallSummary \in SummaryValues :
          run = [StartRun(type, TRUE, UniformRubric(CvParams), TRUE, TopGrades,
                          TopProjectResponse)
                    EXCEPT !.cvText = cvText, !.projectText = projectText,
                           !.summaryText = summaryText,
                           !.overallSummary = overallSummary]

SpecAttempt == InitAttempt /\ [][NextAttempt]_vars

\* attempts for a vacancy whose four documents are in the Vector Index, with
\* the store available or not (then the query of every collection rejects),
\* over every response text of the three LLM calls
InitRetrieval ==
    /\ InitStoresOnly
    /\ vq = NoQuery
    /\ ing = NoIngestion
    /\ ct = NoChunking
    /\ \E jobVacancyId \in VacancyIds, type \in JobTypes, storeDown \in BOOLEAN,
          cvText \in LLMTexts, projectText \in LLMTexts, summaryText \in LLMTexts :
          /\ chroma = [name \in Collections |->
                          PreparedChunks(DocumentTypeOf(name), jobVacancyId)]
          /\ run = [StartRun(type, TRUE, UniformRubric(CvParams), TRUE, TopGrades,
                             TopProjectResponse)
                       EXCEPT !.cvText = cvText, !.projectText = projectText,
                              !.summaryText = summaryText,
                              !.jobVacancyId = jobVacancyId,
                              !.storeDown = storeDown]

SpecRetrieval == InitRetrieval /\ [][NextAttempt]_vars

\* ------------------------------------- one ingestion, step by step
\* the try block starts: the vacancy is set to processing
IngBegin ==
    /\ ing.stage = "begin"
    /\ ing' = [ing EXCEPT !.stage = "documents", !.status = "processing"]
    /\ UNCHANGED chroma
    /\ UNCHANGED <<vacancies, jobs, ingestQ, evalQ, ingestPc, evalPc, evalVac,
                   evalErr, resp, inflightWriter, everActive, resultWrites,
                   workers, run, vq, ct>>

\* ingestPDFToChromaDB for the next document: its chunks are added to the
\* collection of its type
IngDocument ==
    /\ ing.stage = "documents"
    /\ \E onDuplicate \in {"ignore", "reject"} :
          LET documentType == IngestOrder(ing.type)[ing.added + 1]
              name == FILE_TYPE_TO_COLLECTION[documentType]
              out == CollectionAdd(chroma[name],
                                   PreparedChunks(documentType, ing.vacancyId),
                                   onDuplicate)
          IN IF out.threw
             THEN /\ ing' = [ing EXCEPT !.stage = "threw"]
                  /\ UNCHANGED chroma
             ELSE /\ chroma' = [chroma EXCEPT ![name] = out.contents]
                  /\ ing' = [ing EXCEPT
                                !.added = @ + 1,
                                !.stage = IF ing.added + 1 = Len(IngestOrder(ing.type))
                                          THEN "rubrics" ELSE "documents"]
    /\ UNCHANGED <<vacancies, jobs, ingestQ, evalQ, ingestPc, evalPc, evalVac,
                   evalErr, resp, inflightWriter, everActive, resultWrites,
                   workers, run, vq, ct>>

\* a file lookup, a PDF extraction, an embedding or an LLM call rejects, or a
\* logToJob after the final update does
IngThrow ==
    /\ ing.stage \in {"documents", "rubrics", "post"}
    /\ ing' = [ing EXCEPT !.stage = "threw"]
    /\ UNCHANGED chroma
    /\ UNCHANGED <<vacancies, jobs, ingestQ, evalQ, ingestPc, evalPc, evalVac,
                   evalErr, resp, inflightWriter, everActive, resultWrites,
                   workers, run, vq, ct>>

\* the queries are generated and the rubrics standardized: the CV rubric
\* always, the project rubric for cv_with_test
IngStandardize ==
    /\ ing.stage = "rubrics"
    /\ LET cv == standardizeRubric(ing.cvRubricText, ing.cvRubricOutput)
           project == standardizeRubric(DirectJson, ing.projectRubricOutput)
       IN ing' = IF cv.threw THEN [ing EXCEPT !.stage = "threw"]
                 ELSE [ing EXCEPT
                          !.stage = "update",
                          !.standardizedCvRubric = cv.rubric,
                          !.standardizedProjectRubric =
                              IF ing.type = "cv_with_test" THEN project.rubric ELSE @]
    /\ UNCHANGED chroma
    /\ UNCHANGED <<vacancies, jobs, ingestQ, evalQ, ingestPc, evalPc, evalVac,
                   evalErr, resp, inflightWriter, everActive, resultWrites,
                   workers, run, vq, ct>>

\* the update that stores the ingestion results with status active
IngUpdate ==
    /\ ing.stage = "update"
    /\ ing' = [ing EXCEPT !.stage = "post", !.status = "active"]
    /\ UNCHANGED chroma
    /\ UNCHANGED <<vacancies, jobs, ingestQ, evalQ, ingestPc, evalPc, evalVac,
                   evalErr, resp, inflightWriter, everActive, resultWrites,
                   workers, run, vq, ct>>

\* the logs after the update pass and the handler returns
IngReturn ==
    /\ ing.stage = "post"
    /\ ing' = [ing EXCEPT !.stage = "done"]
    /\ UNCHANGED chroma
    /\ UNCHANGED <<vacancies, jobs, ingestQ, evalQ, ingestPc, evalPc, evalVac,
                   evalErr, resp, inflightWriter, everActive, resultWrites,
                   workers, run, vq, ct>>

\* the catch block sets the vacancy to failed and throws on; nothing is
\* removed from the store
IngCatch ==
    /\ ing.stage = "threw"
    /\ ing' = [ing EXCEPT !.stage = "failed", !.status = "failed",
                          !.attemptsMade = @ + 1]
    /\ UNCHANGED chroma
    /\ UNCHANGED <<vacancies, jobs, ingestQ, evalQ, ingestPc, evalPc, evalVac,
                   evalErr, resp, inflightWriter, everActive, resultWrites,
                   workers, run, vq, ct>>

\* job.log rejects in the catch block: the failed update is never reached
IngCatchThrow ==
    /\ ing.stage = "threw"
    /\ ing' = [ing EXCEPT !.stage = "failed", !.attemptsMade = @ + 1]
    /\ UNCHANGED chroma
    /\ UNCHANGED <<vacancies, jobs, ingestQ, evalQ, ingestPc, evalPc, evalVac,
                   evalErr, resp, inflightWriter, everActive, resultWrites,
                   workers, run, vq, ct>>

\* BullMQ runs the handler again with the same job data
IngRetry ==
    /\ ing.stage = "failed"
    /\ ing.attemptsMade < Attempts
    /\ ing' = [ing EXCEPT !.stage = "begin", !.added = 0]
    /\ UNCHANGED chroma
    /\ UNCHANGED <<vacancies, jobs, ingestQ, evalQ, ingestPc, evalPc, evalVac,
                   evalErr, resp, inflightWriter, everActive, resultWrites,
                   workers, run, vq, ct>>

NextIngestion ==
    \/ IngBegin \/ IngDocument \/ IngThrow \/ IngStandardize
    \/ IngUpdate \/ IngReturn \/ IngCatch \/ IngCatchThrow \/ IngRetry

\* an ingestion of either type for a vacancy of the model into an empty
\* store, over every text of the CV standardizer's response and every value
\* one of the two standardizer responses can parse to
InitIngestion ==
    /\ InitStoresOnly
    /\ run = NoRun
    /\ chroma = EmptyStore
    /\ vq = NoQuery
    /\ ct = NoChunking
    /\ \E type \in JobTypes, vacancyId \in VacancyIds, cvRubricText \in LLMTexts :
          \/ \E cvRubricOutput \in RubricOutputs(CvParams) :
                ing = StartIngestion(type, vacancyId, cvRubricText, cvRubricOutput,
                                     UniformRubric(ProjectParams))
          \/ \E projectRubricOutput \in RubricOutputs(ProjectParams) :
                ing = StartIngestion(type, vacancyId, cvRubricText,
                                     UniformRubric(CvParams), projectRubricOutput)

SpecIngestion == InitIngestion /\ [][NextIngestion]_vars

\* ------------------------------------------------- a call of chunkText
CallChunkText ==
    /\ ~ct.called
    /\ ct' = [ct EXCEPT !.called = TRUE,
                        !.chunks = chunkText(ct.text, ct.chunkSize, ct.overlap)]
    /\ UNCHANGED <<vacancies, jobs, ingestQ, evalQ, ingestPc, evalPc, evalVac,
                   evalErr, resp, inflightWriter, everActive, resultWrites,
                   workers, run, chroma, vq, ing>>

\* a call for every text, target size and overlap of the bounds
InitChunk ==
    /\ InitStoresOnly
    /\ run = NoRun
    /\ chroma = EmptyStore
    /\ vq = NoQuery
    /\ ing = NoIngestion
    /\ \E text \in UNION {[1..n -> Chars] : n \in 0..MaxTextLen},
          chunkSize \in 1..MaxChunkSize, overlap \in 0..MaxOverlap :
          ct = [NoChunking EXCEPT !.text = text, !.chunkSize = chunkSize,
                                  !.overlap = overlap]

SpecChunk == InitChunk /\ [][CallChunkText]_vars

\* ------------------------------------------------- the two vector queries
\* the similarity-scored query is called with the arguments held in vq
CallQueryVectorDBWithCosineSimilarity ==
    /\ vq.collectionNames # <<>>
    /\ ~vq.cosine.called
    /\ vq' = [vq EXCEPT !.cosine = queryVectorDBWithCosineSimilarity(
                  vq.collectionNames, vq.topK, vq.jobVacancyId, vq.failing)]
    /\ UNCHANGED <<vacancies, jobs, ingestQ, evalQ, ingestPc, evalPc, evalVac,
                   evalErr, resp, inflightWriter, everActive, resultWrites,
                   workers, run, chroma, ing, ct>>

\* the query without scores is called with the same arguments
CallQueryVectorDB ==
    /\ vq.collectionNames # <<>>
    /\ ~vq.plain.called
    /\ vq' = [vq EXCEPT !.plain = queryVectorDB(
                  vq.collectionNames, vq.topK, vq.jobVacancyId, vq.failing)]
    /\ UNCHANGED <<vacancies, jobs, ingestQ, evalQ, ingestPc, evalPc, evalVac,
                   evalErr, resp, inflightWriter, everActive, resultWrites,
                   workers, run, chroma, ing, ct>>

NextQuery ==
    \/ CallQueryVectorDBWithCosineSimilarity
    \/ CallQueryVectorDB

Range(s) == {s[i] : i \in DOMAIN s}

\* a store whose queried collections hold any chunks of any vacancy, while
\* the other collections hold one chunk of the querying vacancy each; the
\* query is the CV stage's or the project stage's, for a vacancy of the
\* model, and the query against any of its collections may be rejected
InitQuery ==
    /\ vacancies = [v \in VacancyIds |-> NoVacancy]
    /\ jobs = [j \in JobIds |-> NoJob]
    /\ ingestQ = [v \in VacancyIds |-> NoQueueJob]
    /\ evalQ = [j \in JobIds |-> NoQueueJob]
    /\ ingestPc = [v \in VacancyIds |-> "idle"]
    /\ evalPc = [j \in JobIds |-> "idle"]
    /\ evalVac = [j \in JobIds |-> NoVacancy]
    /\ evalErr = [j \in JobIds |-> ""]
    /\ resp = NoResp
    /\ inflightWriter = [v \in VacancyIds |-> "none"]
    /\ everActive = [v \in VacancyIds |-> FALSE]
    /\ resultWrites = [j \in JobIds |-> 0]
    /\ workers = {"evaluation"}
    /\ run = NoRun
    /\ ing = NoIngestion
    /\ ct = NoChunking
    /\ \E collectionNames \in {CvCollections, ProjectCollections},
          topK \in 1..MaxChunks, jobVacancyId \in VacancyIds :
          /\ \E failing \in SUBSET Range(collectionNames) :
                vq = [NoQuery EXCEPT !.collectionNames = collectionNames,
                                     !.topK = topK,
                                     !.jobVacancyId = jobVacancyId,
                                     !.failing = failing]
          /\ \E first \in CollectionContents(collectionNames[1], jobVacancyId),
                second \in CollectionContents(collectionNames[2], jobVacancyId) :
                chroma = [name \in Collections |->
                            IF name = collectionNames[1] THEN first
                            ELSE IF name = collectionNames[2] THEN second
                            ELSE <<Chunk(DocumentTypeOf(name), jobVacancyId, 1, 0)>>]

SpecQuery == InitQuery /\ [][NextQuery]_vars

\* ================================================================ claims
NotActive == {"pending", "processing", "failed", "inactive"}

GeneratedFields(vacancy) ==
    <<vacancy.standardizedCvRubric, vacancy.standardizedProjectRubric,
      vacancy.cvEvaluationQueries, vacancy.projectEvaluationQueries>>

\* C1: a createEvaluation request against a vacancy that is pending,
\* processing, failed or inactive is answered 400 "not active", and it
\* neither creates a job document nor adds a job to the evaluation queue.
C1_NotActiveRejected ==
    [][\A v \in {w \in VacancyIds : vacancies[w].status \in NotActive},
          cvExists \in BOOLEAN,
          report \in {"absent", "missing", "present"},
          outcome \in {"ok", "create", "enqueue"} :
          CreateEvaluation(v, cvExists, report, outcome)
          => /\ resp'.code = 400
             /\ resp'.error = "vacancy is not active"
             /\ jobs' = jobs
             /\ evalQ' = evalQ]_vars

\* a request was rejected as "not active" while a vacancy is not active, with
\* no job document and no queued job
C1_Witness ==
    /\ resp = Respond("createEvaluation", 400, "vacancy is not active")
    /\ \E v \in VacancyIds : vacancies[v].status \in NotActive
    /\ \A j \in JobIds : jobs[j].status = "none" /\ evalQ[j].state = "none"

\* C2: in every reachable state an active vacancy has its standardized CV
\* rubric, and its standardized project rubric when it is cv_with_test.
C2_ActiveIsIngested ==
    \A v \in VacancyIds :
        vacancies[v].status = "active" =>
            /\ vacancies[v].standardizedCvRubric # 0
            /\ vacancies[v].type = "cv_with_test" =>
                   vacancies[v].standardizedProjectRubric # 0

SubmissionTransitions ==
    {<<"queued", "processing">>, <<"processing", "completed">>,
     <<"queued", "failed">>, <<"processing", "failed">>}

\* C3: a submission's status changes only queued->processing,
\* processing->completed, queued->failed, processing->failed; completed and
\* failed are never left.
C3_SubmissionStatusSteps ==
    [][\A j \in JobIds :
          (jobs[j].status # "none" /\ jobs'[j].status # jobs[j].status)
          => <<jobs[j].status, jobs'[j].status>> \in SubmissionTransitions]_vars

\* C4: a submission holds a result only while completed and an error only
\* while failed, hence never both.
C4_ResultXorError ==
    \A j \in JobIds :
        /\ jobs[j].result.defined => jobs[j].status = "completed"
        /\ jobs[j].error # "" => jobs[j].status = "failed"

\* C5: over all attempts of its job, a submission's result is written at
\* most once.
C5_ResultWrittenOnce == \A j \in JobIds : resultWrites[j] <= 1

\* C6: an ingestion attempt that threw ends with the vacancy failed and
\* without generated rubrics or queries, and a failed vacancy holds none.
C6_FailedHoldsNothing ==
    /\ [][\A v \in VacancyIds :
             (ingestPc[v] = "catch" /\ ingestPc'[v] = "idle")
             => /\ vacancies'[v].status = "failed"
                /\ GeneratedFields(vacancies'[v]) = <<0, 0, 0, 0>>]_vars
    /\ [](\A v \in VacancyIds :
             vacancies[v].status = "failed"
             => GeneratedFields(vacancies[v]) = <<0, 0, 0, 0>>)

\* C7: while an ingestion attempt runs, a status written by the toggle is not
\* overwritten by the worker, nor one written by the worker by the toggle.
C7_NoLostStatusWrite ==
    [][\A v \in VacancyIds :
          (inflightWriter[v] # "none" /\ inflightWriter'[v] # "none")
          => inflightWriter'[v] = inflightWriter[v]]_vars

VacancyTransitions ==
    {<<"pending", "processing">>, <<"processing", "active">>,
     <<"pending", "failed">>, <<"processing", "failed">>,
     <<"active", "inactive">>, <<"inactive", "active">>}

\* C8: a vacancy's status changes only pending->processing,
\* processing->active, pending->failed, processing->failed and between
\* active and inactive.
C8_VacancyStatusSteps ==
    [][\A v \in VacancyIds :
          (vacancies[v].status # "none"
              /\ vacancies'[v].status # vacancies[v].status)
          => <<vacancies[v].status, vacancies'[v].status>>
                \in VacancyTransitions]_vars

\* C9: once a vacancy has been active, its type, document references,
\* standardized rubrics and evaluation queries never change.
C9_FrozenOnceActive ==
    [][\A v \in VacancyIds :
          everActive[v] =>
              /\ vacancies'[v].type = vacancies[v].type
              /\ vacancies'[v].files = vacancies[v].files
              /\ GeneratedFields(vacancies'[v]) = GeneratedFields(vacancies[v])]_vars

\* C10: an evaluation attempt that writes "completed" loaded its vacancy
\* while the vacancy was active.
C10_CompletedOnlyIfActiveAtLoad ==
    \A j \in JobIds : evalPc[j] = "post" => evalVac[j].status = "active"

\* C11: a createEvaluation request with an existing CV file (and an existing
\* report file when the vacancy is cv_with_test) against an active vacancy,
\* with JobModel.create and the enqueue answering, returns 200, creates one
\* job document with status queued that references the vacancy, and adds one
\* job keyed by the new id to the evaluation queue.
C11_SubmissionCreated ==
    [][\A v \in {w \in VacancyIds : vacancies[w].status = "active"},
          report \in {"absent", "present"} :
          (ValidationError(vacancies[v], TRUE, report) = ""
              /\ CreateEvaluation(v, TRUE, report, "ok"))
          => /\ resp' = Respond("createEvaluation", 200, "")
             /\ jobs'[NewJobId].status = "queued"
             /\ jobs'[NewJobId].vacancyId = v
             /\ \A j \in JobIds \ {NewJobId} : jobs'[j] = jobs[j]
             /\ evalQ'[NewJobId].state = "waiting"
             /\ \A j \in JobIds \ {NewJobId} : evalQ'[j] = evalQ[j]]_vars

\* C12: with the evaluation worker fairly scheduled, a job document that is
\* queued eventually is completed or failed, and so does not stay queued or
\* processing forever.
C12_SubmissionSettles ==
    \A j \in JobIds :
        (jobs[j].status = "queued") ~> (jobs[j].status \in {"completed", "failed"})

\* C13: with the ingestion worker fairly scheduled, a vacancy whose ingestion
\* job was enqueued leaves pending and reaches active or failed.
C13_VacancySettles ==
    \A v \in VacancyIds :
        (vacancies[v].status = "pending" /\ ingestQ[v].state = "waiting")
            ~> (vacancies[v].status \in {"active", "failed"})

\* C14: a queue job is attempted at most 3 times, and once its attempts are
\* used up (the queue leaves it failed) the submission, or the vacancy, it
\* belongs to is in status failed.
C14_ExhaustedStaysFailed ==
    /\ \A j \in JobIds :
          /\ evalQ[j].attemptsMade <= Attempts
          /\ evalQ[j].state = "failed" => jobs[j].status = "failed"
    /\ \A v \in VacancyIds :
          /\ ingestQ[v].attemptsMade <= Attempts
          /\ ingestQ[v].state = "failed" => vacancies[v].status = "failed"

\* C15: an evaluation attempt that threw ends with the job document failed
\* and its error equal to the message of the exception the attempt caught.
C15_ErrorIsThrownMessage ==
    [][\A j \in JobIds :
          (evalPc[j] = "catch" /\ evalPc'[j] = "idle")
          => /\ jobs'[j].status = "failed"
             /\ jobs'[j].error = evalErr[j]]_vars

\* C16: a vacancy whose ingestion job used up its attempts and that is failed
\* holds the error message of the last attempt.
C16_VacancyKeepsError ==
    \A v \in VacancyIds :
        (ingestQ[v].state = "failed" /\ vacancies[v].status = "failed")
            => vacancies[v].error # ""

ProjectKeys == {"project_score", "project_feedback", "project_detailed_scores"}

\* the project-scoring response says is_relevant false, or one of its five
\* score fields is absent or not a number
FallsBackToZero(projectResponse) ==
    \/ projectResponse.is_relevant = "false"
    \/ \E p \in ProjectParams : projectResponse.scores[p].type # "number"

\* C17: for a cv_with_test attempt with a report whose project-scoring
\* response falls back to zero, the project stage does not throw, and the
\* compiled result has project_score 0, the response's feedback under
\* project_feedback, and no project_detailed_scores key.
C17_FallbackToZero ==
    (run.type = "cv_with_test" /\ run.reportId
        /\ FallsBackToZero(run.projectResponse))
    => /\ run.stage # "threw"
       /\ run.stage = "done" =>
             /\ "project_score" \in DOMAIN run.result
             /\ run.result["project_score"] = Num(0)
             /\ "project_feedback" \in DOMAIN run.result
             /\ run.result["project_feedback"] = run.projectResponse.feedback
             /\ "project_detailed_scores" \notin DOMAIN run.result

\* an attempt is done whose response does not say is_relevant false but lacks
\* a numeric score field, while another score field is a number
C17_Witness ==
    /\ run.stage = "done"
    /\ run.type = "cv_with_test" /\ run.reportId
    /\ run.projectResponse.is_relevant = "true"
    /\ \E p, q \in ProjectParams :
          /\ run.projectResponse.scores[p].type # "number"
          /\ run.projectResponse.scores[q].type = "number"
    /\ run.result["project_score"] = Num(0)

\* C18: an attempt for a cv_only vacancy makes no project-stage extraction,
\* retrieval or LLM call, and its compiled result has none of the keys
\* project_score, project_feedback, project_detailed_scores, with or without
\* a reportId.
C18_CvOnlyHasNoProjectKeys ==
    run.type = "cv_only" /\ run.stage # "none"
    => /\ run.calls = {}
       /\ run.stage # "threw"
       /\ run.stage = "done" =>
             /\ DOMAIN run.result \cap ProjectKeys = {}
             /\ "cv_match_rate" \in DOMAIN run.result

\* a cv_only attempt that was given a reportId is done
C18_Witness ==
    /\ run.stage = "done"
    /\ run.type = "cv_only" /\ run.reportId
    /\ "cv_detailed_scores" \in DOMAIN run.result

\* the CV rubric's weights sum to 1
WeightsSumToOne(cvRubric) ==
    LET total == Add(Add(Add(cvRubric["technical_skills"], cvRubric["experience_level"]),
                         cvRubric["achievements"]), cvRubric["cultural_fit"])
    IN Leq(total, Num(1)) /\ Leq(Num(1), total)

GradesOnScale(cvResponse) ==
    \A p \in CvParams :
        /\ cvResponse[p].type = "number"
        /\ Leq(Num(GradeMin), cvResponse[p]) /\ Leq(cvResponse[p], Num(GradeMax))

\* the sum of grade times weight over the four parameters, divided by 5, for
\* weights that share one denominator
WeightedFifth(cvResponse, cvRubric) ==
    Frac(cvResponse["technical_skills"].num * cvRubric["technical_skills"].num
           + cvResponse["experience_level"].num * cvRubric["experience_level"].num
           + cvResponse["achievements"].num * cvRubric["achievements"].num
           + cvResponse["cultural_fit"].num * cvRubric["cultural_fit"].num,
         5 * cvRubric["technical_skills"].den)

AllGrades(cvResponse, n) == \A p \in CvParams : cvResponse[p] = Num(n)

C20_ResultWithinRanges ==
    run.stage = "done"
    => /\ Leq(Num(0), run.result["cv_match_rate"])
       /\ Leq(run.result["cv_match_rate"], Num(1))
       /\ \A p \in CvParams :
             /\ run.result["cv_detailed_scores"][p].type = "number"
             /\ Leq(Num(GradeMin), run.result["cv_detailed_scores"][p])
             /\ Leq(run.result["cv_detailed_scores"][p], Num(GradeMax))

\* C21: a createEvaluation request without a reportId against a cv_with_test
\* vacancy is answered with a validation error (400 "reportId is required"
\* when the vacancy is active and the CV file exists) and creates no job
\* document and no queue job; and every attempt the worker runs for a
\* cv_with_test vacancy belongs to a job document with a report file.
C21_ReportRequired ==
    /\ [][\A v \in {w \in VacancyIds : vacancies[w].type = "cv_with_test"
                                        /\ vacancies[w].status # "none"},
             cvExists \in BOOLEAN, outcome \in {"ok", "create", "enqueue"} :
             CreateEvaluation(v, cvExists, "absent", outcome)
             => /\ resp'.code \in {400, 404}
                /\ (vacancies[v].status = "active" /\ cvExists)
                      => resp' = Respond("createEvaluation", 400, "reportId is required")
                /\ jobs' = jobs
                /\ evalQ' = evalQ]_vars
    /\ [](\A j \in JobIds :
             (evalPc[j] # "idle" /\ evalVac[j].type = "cv_with_test")
             => "report" \in jobs[j].fileIds)

\* a request without a reportId was rejected against an active cv_with_test
\* vacancy, and nothing was created
C21_Witness ==
    /\ resp = Respond("createEvaluation", 400, "reportId is required")
    /\ \E v \in VacancyIds :
          vacancies[v].type = "cv_with_test" /\ vacancies[v].status = "active"
    /\ \A j \in JobIds : jobs[j].status = "none" /\ evalQ[j].state = "none"

\* C22: a createVacancy request for cv_with_test without the caseStudyBrief
\* or the projectRubric file is answered 400 and stores no file, creates no
\* vacancy and enqueues no ingestion job; and every request that creates a
\* vacancy creates it pending with a waiting ingestion job keyed by its id.
C22_VacancyCreated ==
    [][\A type \in JobTypes, provided \in Uploads :
          PostJobVacancy(type, provided)
          => /\ (type = "cv_with_test"
                    /\ ~({"case_study_brief", "project_rubric"} \subseteq provided))
                 => /\ resp'.code = 400
                    /\ vacancies' = vacancies
                    /\ ingestQ' = ingestQ
             /\ \A v \in VacancyIds :
                   (vacancies[v].status = "none" /\ vacancies'[v].status # "none")
                   => /\ vacancies'[v].status = "pending"
                      /\ ingestQ'[v].state = "waiting"
                      /\ ingestQ'[v].data = v]_vars

\* what the partitions whose query answered returned to the call held in vq,
\* one partition after the other
PartitionResults ==
    LET from(name) == IF name \in vq.failing THEN <<>>
                      ELSE CollectionQuery(name, vq.topK, vq.jobVacancyId)
    IN from(vq.collectionNames[1]) \o from(vq.collectionNames[2])

Count(s, x) == Cardinality({i \in DOMAIN s : s[i] = x})

\* r holds the k most similar items of m: it has min(k, |m|) items, all taken
\* from m, and no item of m that was left out is more similar than a kept one
IsTopK(r, m, k) ==
    /\ Len(r) = Min(k, Len(m))
    /\ \A x \in Range(r) : Count(r, x) <= Count(m, x)
    /\ \A x \in Range(m) :
          Count(r, x) < Count(m, x)
          => \A y \in Range(r) : y.similarity >= x.similarity

C24_FailingPartitionSkipped ==
    \A mode \in {vq.cosine, vq.plain} :
        (mode.called /\ vq.failing # {}) =>
            /\ ~mode.threw
            /\ \A i \in 1..Len(mode.results) :
                  FILE_TYPE_TO_COLLECTION[mode.results[i].chunk.documentType]
                      \notin vq.failing
            /\ mode = vq.plain
                  => mode.results = WithoutSimilarity(PartitionResults)
            /\ mode = vq.cosine
                  => IsTopK(mode.results, WithSimilarity(PartitionResults),
                            vq.topK)

\* the query against one partition that holds chunks of the vacancy threw,
\* and both modes returned chunks of the other partition
C24_Witness ==
    /\ Cardinality(vq.failing) = 1
    /\ \E name \in vq.failing :
          \E i \in 1..Len(chroma[name]) : chroma[name][i].jobVacancyId = vq.jobVacancyId
    /\ vq.cosine.called /\ vq.cosine.results # <<>>
    /\ vq.plain.called /\ vq.plain.results # <<>>

\* C25: every chunk either mode returns carries the vacancy id the query was
\* made for and was stored in one of the collections the query names, which
\* are the CV stage's or the project stage's pair.
C25_OwnVacancyOnly ==
    \A mode \in {vq.cosine, vq.plain} :
        mode.called =>
            /\ vq.collectionNames \in {CvCollections, ProjectCollections}
            /\ \A i \in 1..Len(mode.results) :
                  /\ mode.results[i].chunk.jobVacancyId = vq.jobVacancyId
                  /\ FILE_TYPE_TO_COLLECTION[mode.results[i].chunk.documentType]
                        \in Range(vq.collectionNames)

\* a queried collection holds a chunk of another vacancy that is nearer to
\* the query than a chunk of the querying vacancy, which both modes returned
C25_Witness ==
    /\ vq.cosine.called /\ vq.cosine.results # <<>>
    /\ vq.plain.called /\ vq.plain.results # <<>>
    /\ vq.failing = {}
    /\ \E name \in Range(vq.collectionNames) :
          /\ Len(chroma[name]) = 2
          /\ chroma[name][1].jobVacancyId # vq.jobVacancyId
          /\ chroma[name][2].jobVacancyId = vq.jobVacancyId
          /\ chroma[name][1].distance < chroma[name][2].distance

\* C26: for the same arguments the mode without scores returns the chunks of
\* the scored mode in the same order, without the similarity field, and so at
\* most topK of them.
C26_SameRetrieval ==
    (vq.cosine.called /\ vq.plain.called) =>
        /\ vq.plain.results = WithoutSimilarity(
                                  [i \in 1..Len(vq.cosine.results) |->
                                      vq.cosine.results[i].chunk])
        /\ Len(vq.plain.results) <= vq.topK

\* the place of event e in the attempt's trace, 0 when it has not happened
Pos(e) ==
    IF e \in Range(run.trace)
    THEN CHOOSE i \in 1..Len(run.trace) :
            run.trace[i] = e /\ \A k \in 1..(i - 1) : run.trace[k] # e
    ELSE 0

\* if b has happened, a happened before it
Before(a, b) == Pos(b) > 0 => (Pos(a) > 0 /\ Pos(a) < Pos(b))

\* C27: within an attempt the status is set to processing before any
\* extraction, retrieval or LLM call; the CV response is parsed and the match
\* rate computed before the report is extracted or the project LLM call is
\* made; the project stage, when it runs, has parsed its response before the
\* summary LLM call; and completed is written only after the summary
\* response was parsed.
C27_StagesInSequence ==
    /\ \A e \in Range(run.trace) \ {"status:processing"} :
          Before("status:processing", e)
    /\ \A e \in {"extractTextFromPDF:report", "queryVectorDB:project",
                 "callLLM:project"} :
          Before("parseLLMResponse:cv", e) /\ Before("cvMatchRate", e)
    /\ Before("cvMatchRate", "callLLM:summary")
    /\ run.type = "cv_with_test"
          => Before("parseLLMResponse:project", "callLLM:summary")
    /\ Before("parseLLMResponse:summary", "status:completed")
    /\ Pos("status:completed") > 0 => ~parseLLMResponse(run.summaryText).threw

\* an attempt for a cv_with_test vacancy ran all three stages and returned
C27_Witness ==
    /\ run.stage = "done"
    /\ run.type = "cv_with_test"
    /\ run.status = "completed"
    /\ Pos("callLLM:cv") > 0 /\ Pos("callLLM:project") > 0
    /\ Pos("callLLM:summary") > 0

\* the text cannot be parsed as JSON: not as it is or without its fence (it is
\* not valid JSON) and not by its brace-delimited block (there is none, or it
\* is not valid JSON)
Unparseable(text) == ~text.braces \/ ~text.valid

\* C28: when the response of the CV, project or summary LLM call cannot be
\* parsed, the attempt makes no LLM call of a later stage and none twice,
\* persists no result, and ends with the job document failed; and a retry
\* starts again at the first step.
C28_UnparseableFailsAttempt ==
    /\ [](/\ Unparseable(run.cvText)
                => /\ Pos("callLLM:project") = 0 /\ Pos("callLLM:summary") = 0
                   /\ ~run.persisted
          /\ (run.type = "cv_with_test" /\ Unparseable(run.projectText))
                => Pos("callLLM:summary") = 0 /\ ~run.persisted
          /\ Unparseable(run.summaryText) => ~run.persisted
          /\ \A e \in {"callLLM:cv", "callLLM:project", "callLLM:summary"} :
                Cardinality({i \in 1..Len(run.trace) : run.trace[i] = e}) <= 1
          /\ (run.stage = "failed"
                 /\ (\/ Unparseable(run.cvText)
                     \/ run.type = "cv_with_test" /\ Unparseable(run.projectText)
                     \/ Unparseable(run.summaryText)))
                => run.status = "failed")
    /\ [][RunRetry => (run'.stage = "begin" /\ run'.trace = <<>>)]_vars

\* C29: a CV response that parses but lacks one of the four numeric scores
\* makes the attempt throw in the CV stage; no later stage is reached and no
\* result is persisted.
C29_MissingScoreThrows ==
    (\E p \in CvParams : run.cvResponse[p].type # "number")
    => /\ run.stage \in {"none", "begin", "files", "cv", "threw"}
       /\ ~run.persisted

\* C30: an attempt whose summary has no string overall_summary persists no
\* result; a persisted result has a string overall_summary; and an attempt
\* that wrote completed does not write failed afterwards.
C30_SummaryIsString ==
    /\ run.overallSummary.type # "string" => ~run.persisted
    /\ run.persisted => run.result["overall_summary"].type = "string"
    /\ Pos("status:completed") > 0 => Pos("status:failed") = 0

\* a stored rubric has the StandardizedRubric shape: every fixed parameter
\* name with a numeric weight
HasRubricShape(rubric) ==
    \A p \in DOMAIN rubric : rubric[p].type = "number" /\ ~rubric[p].nan

\* C31: a standardizer output that parses but lacks the StandardizedRubric
\* shape makes ingestion fail, so the rubrics of a vacancy set active (the CV
\* rubric, and the project rubric of a cv_with_test vacancy) have every
\* parameter with a numeric weight
C31_MalformedRubricFails ==
    ing.status = "active" =>
        /\ HasRubricShape(ing.standardizedCvRubric)
        /\ ing.type = "cv_with_test" => HasRubricShape(ing.standardizedProjectRubric)

\* two entries of a collection with the id of the same vacancy, document and
\* chunk index
HasDuplicates(contents) ==
    \E i, j \in 1..Len(contents) : i < j /\ SameId(contents[i], contents[j])

IsPrefix(a, b) ==
    Len(a) <= Len(b) /\ \A i \in 1..Len(a) : a[i] = b[i]

C32_StoreFailureFailsAttempt ==
    run.storeDown => run.status # "completed"

\* C33: the project_score of every result compiled for a cv_with_test
\* submission is 0 or lies between the lowest and the highest grade
C33_ProjectScoreZeroOrOnScale ==
    (run.stage = "done" /\ run.type = "cv_with_test")
    => \/ run.result["project_score"] = Num(0)
       \/ /\ Leq(Num(GradeMin), run.result["project_score"])
          /\ Leq(run.result["project_score"], Num(GradeMax))

\* the last character of a chunk is a sentence-ending mark
EndsWithMark(chunk) == chunk # <<>> /\ chunk[Len(chunk)] = Mark

\* C34: for every non-empty text, target size and overlap, every chunk
\* chunkText returns ends with a sentence-ending mark, the single chunk of a
\* text that fits the target size included
C34_ChunksEndWithMark ==
    (ct.called /\ ct.text # <<>>)
    => \A k \in 1..Len(ct.chunks) : EndsWithMark(ct.chunks[k])

\* C35: every chunk chunkText returns is at most chunkSize long, unless it
\* is a single sentence longer than chunkSize, whatever the overlap
C35_ChunksWithinSize ==
    ct.called
    => \A k \in 1..Len(ct.chunks) :
          \/ Len(ct.chunks[k]) <= ct.chunkSize
          \/ Len(splitIntoSentences(ct.chunks[k])) = 1

\* how many leading sentences of chunk k are carried over from chunk k - 1
Carried(chunks, overlap, k) ==
    IF k = 1 THEN 0 ELSE Min(overlap, Len(splitIntoSentences(chunks[k - 1])))

\* the index, among the input sentences, of the last sentence of chunk k
\* when every chunk adds its sentences after the carried ones
RECURSIVE LastSentenceIndex(_, _, _)
LastSentenceIndex(chunks, overlap, k) ==
    IF k = 0 THEN 0
    ELSE LastSentenceIndex(chunks, overlap, k - 1)
            + Len(splitIntoSentences(chunks[k])) - Carried(chunks, overlap, k)

\* the sentences of the chunks from chunk k on, the carried ones dropped
RECURSIVE NewSentences(_, _, _)
NewSentences(chunks, overlap, k) ==
    IF k > Len(chunks) THEN <<>>
    ELSE LET own == splitIntoSentences(chunks[k])
         IN SubSeq(own, Carried(chunks, overlap, k) + 1, Len(own))
                \o NewSentences(chunks, overlap, k + 1)

\* a sentence of a chunk is input sentence i; when exact is FALSE the last
\* input sentence may have got the period it lacked
IsInputSentence(sentence, sentences, i, exact) ==
    /\ i \in 1..Len(sentences)
    /\ \/ sentence = sentences[i]
       \/ /\ ~exact
          /\ i = Len(sentences)
          /\ ~EndsWithMark(sentences[i])
          /\ sentence = sentences[i] \o <<Mark>>

\* each chunk is a run of whole input sentences in input order that starts
\* with the carried sentences of the chunk before and adds at least one, and
\* the last chunk ends with the last input sentence
ChunksCoverSentences(exact) ==
    LET sentences == splitIntoSentences(ct.text)
    IN /\ \A k \in 1..Len(ct.chunks) :
             LET own == splitIntoSentences(ct.chunks[k])
                 last == LastSentenceIndex(ct.chunks, ct.overlap, k)
             IN /\ Len(own) > Carried(ct.chunks, ct.overlap, k)
                /\ \A j \in 1..Len(own) :
                      IsInputSentence(own[j], sentences, last - Len(own) + j, exact)
       /\ LastSentenceIndex(ct.chunks, ct.overlap, Len(ct.chunks)) = Len(sentences)

\* C36: chunkText never splits a sentence: the chunks are runs of whole input
\* sentences in input order, each after the first starting with the last
\* min(overlap, n) sentences of the chunk before followed by at least one new
\* sentence, and every input sentence is in a chunk; dropping the carried
\* sentences and joining the rest gives the whitespace-normalized text, with
\* a period added when the text is longer than chunkSize and lacks a final
\* mark
C36_ChunksAreSentenceRuns ==
    (ct.called /\ ~IsBlank(ct.text))
    => /\ ChunksCoverSentences(FALSE)
       /\ LET joined == Join(NewSentences(ct.chunks, ct.overlap, 1))
          IN \/ joined = Normalize(ct.text)
             \/ /\ Len(Normalize(ct.text)) > ct.chunkSize
                /\ ~EndsWithMark(Normalize(ct.text))
                /\ joined = Normalize(ct.text) \o <<Mark>>

\* several chunks with carried sentences for a text without a final mark
C36_Witness ==
    /\ ct.called
    /\ Len(ct.chunks) >= 3
    /\ ct.overlap >= 1
    /\ ~EndsWithMark(Normalize(ct.text))

\* C36 as stated: the chunks hold the input sentences unchanged and the
\* sentences left after dropping the carried ones join to the normalized text
C36_ReconstructsNormalizedText ==
    (ct.called /\ ~IsBlank(ct.text))
    => /\ ChunksCoverSentences(TRUE)
       /\ Join(NewSentences(ct.chunks, ct.overlap, 1)) = Normalize(ct.text)

\* C37: chunkText returns no chunk for an empty or whitespace-only text, and
\* exactly one chunk for any other text not longer than chunkSize
C37_EmptyOrSingleChunk ==
    ct.called
    => /\ (\A i \in 1..Len(ct.text) : ct.text[i] = Space) => ct.chunks = <<>>
       /\ ((\E i \in 1..Len(ct.text) : ct.text[i] # Space)
              /\ Len(ct.text) <= ct.chunkSize)
             => Len(ct.chunks) = 1

\* a text of several sentences and surplus whitespace that fits chunkSize
C37_Witness ==
    /\ ct.called
    /\ Len(ct.text) <= ct.chunkSize
    /\ Len(splitIntoSentences(ct.text)) >= 2
    /\ Normalize(ct.text) # ct.text
    /\ Len(ct.chunks) = 1

====
